---- MODULE Spec2Model ----
(***************************************************************************)
(* MDMagic: the response-recovery layer around the completion provider     *)
(* (api/services/modelscopeService.ts), the rule store                     *)
(* (api/services/storageService.ts) and the routes that drive them         *)
(* (api/routes/markdown.ts).                                               *)
(*                                                                         *)
(* A JavaScript string is a sequence of one-character strings.  A JSON     *)
(* value is a record [k, s, m]: k the kind, s the raw text of a string or  *)
(* number, m the members of an object or the elements of an array.         *)
(***************************************************************************)
EXTENDS Integers, Sequences, FiniteSets, TLC

\* ------------------------------------------------------------------ text

\* U+00A0, U+FEFF and U+200B, each one code unit (as is BACKTICK below).
NBSP == "NBSP"
BOM == "BOM"
ZWSP == "ZWSP"

\* The class \s of a JavaScript regular expression, which is also what
\* String.prototype.trim removes (over the characters of the model).
IsWhite(c) == c \in {" ", "\n", "\r", "\t", "\f", NBSP, BOM}

\* The whitespace JSON.parse accepts between tokens.
JsonWhite(c) == c \in {" ", "\n", "\r", "\t"}

\* Characters below U+0020, which JSON.parse rejects inside a string literal.
IsControl(c) == c \in {"\n", "\r", "\t", "\f"}

Digit == {"0", "1", "2", "3", "4", "5", "6", "7", "8", "9"}

HexDigit == Digit \cup {"a", "b", "c", "d", "e", "f", "A", "B", "C", "D", "E", "F"}

StartsWith(s, p) == Len(s) >= Len(p) /\ SubSeq(s, 1, Len(p)) = p

EndsWith(s, p) == Len(s) >= Len(p) /\ SubSeq(s, Len(s) - Len(p) + 1, Len(s)) = p

RECURSIVE TrimStart(_)
TrimStart(s) == IF s # <<>> /\ IsWhite(Head(s)) THEN TrimStart(Tail(s)) ELSE s

RECURSIVE TrimEnd(_)
TrimEnd(s) ==
    IF s # <<>> /\ IsWhite(s[Len(s)]) THEN TrimEnd(SubSeq(s, 1, Len(s) - 1)) ELSE s

\* String.prototype.trim
trim(s) == TrimEnd(TrimStart(s))

\* String.prototype.indexOf and lastIndexOf, 1-based, 0 for "not found".
RECURSIVE IndexFrom(_, _, _)
IndexFrom(s, c, i) ==
    IF i > Len(s) THEN 0 ELSE IF s[i] = c THEN i ELSE IndexFrom(s, c, i + 1)

indexOf(s, c) == IndexFrom(s, c, 1)

RECURSIVE LastIndexFrom(_, _, _)
LastIndexFrom(s, c, i) ==
    IF i < 1 THEN 0 ELSE IF s[i] = c THEN i ELSE LastIndexFrom(s, c, i - 1)

lastIndexOf(s, c) == LastIndexFrom(s, c, Len(s))

\* ------------------------------------------------------ JavaScript values

Val(k, s, m) == [k |-> k, s |-> s, m |-> m]

\* The JavaScript value undefined (also: what a failed parse carries).
Undefined == Val("undefined", <<>>, <<>>)

Null == Val("null", <<"n", "u", "l", "l">>, <<>>)

True == Val("boolean", <<"t", "r", "u", "e">>, <<>>)

False == Val("boolean", <<"f", "a", "l", "s", "e">>, <<>>)

String(s) == Val("string", s, <<>>)

Object(m) == Val("object", <<>>, m)

Array(elems) == Val("array", <<>>, [i \in 1..Len(elems) |-> [key |-> <<>>, val |-> elems[i]]])

\* The elements of an array value.
Elems(v) == [i \in 1..Len(v.m) |-> v.m[i].val]

\* The index of the member of m named key, 0 when there is none.
RECURSIVE MemberIndex(_, _, _)
MemberIndex(m, key, i) ==
    IF i > Len(m) THEN 0 ELSE IF m[i].key = key THEN i ELSE MemberIndex(m, key, i + 1)

\* m with key set to val: in place when m has the key, appended otherwise.
PutMember(m, key, val) ==
    LET i == MemberIndex(m, key, 1)
    IN  IF i = 0 THEN Append(m, [key |-> key, val |-> val])
        ELSE [m EXCEPT ![i] = [key |-> key, val |-> val]]

\* o.key of an object (undefined for a key it lacks and for a value that is
\* not an object; the callers never read a property of null or undefined
\* through it).
Get(o, key) ==
    LET i == MemberIndex(o.m, key, 1)
    IN  IF o.k = "object" /\ i # 0 THEN o.m[i].val ELSE Undefined

\* { ...o, key: val }
Put(o, key, val) == Object(PutMember(o.m, key, val))

\* The decimal digits of a natural number.
DigitChar == <<"0", "1", "2", "3", "4", "5", "6", "7", "8", "9">>

RECURSIVE Decimal(_)
Decimal(n) ==
    IF n < 10 THEN <<DigitChar[n + 1]>> ELSE Append(Decimal(n \div 10), DigitChar[(n % 10) + 1])

\* The own enumerable properties a spread copies: the members of an object,
\* the elements of an array under their indices, nothing for the rest (the
\* completions of the model hold no string where an object is spread).
OwnMembers(v) ==
    IF v.k = "object" THEN v.m
    ELSE IF v.k = "array" THEN [i \in 1..Len(v.m) |-> [key |-> Decimal(i - 1), val |-> v.m[i].val]]
    ELSE <<>>

\* m with the members of n put onto it in order.
RECURSIVE PutAll(_, _, _)
PutAll(m, n, i) ==
    IF i > Len(n) THEN m ELSE PutAll(PutMember(m, n[i].key, n[i].val), n, i + 1)

\* { ...a, ...b }
Spread(a, b) == Object(PutAll(OwnMembers(a), OwnMembers(b), 1))

\* A number literal that denotes zero.
IsZero(s) ==
    LET e == IF indexOf(s, "e") # 0 THEN indexOf(s, "e") ELSE indexOf(s, "E")
        mant == IF e = 0 THEN s ELSE SubSeq(s, 1, e - 1)
    IN  \A i \in 1..Len(mant) : mant[i] \in {"0", "-", "."}

\* ToBoolean
Truthy(v) ==
    CASE v.k \in {"undefined", "null"} -> FALSE
      [] v.k = "boolean" -> v = True
      [] v.k = "number" -> ~IsZero(v.s)
      [] v.k = "string" -> v.s # <<>>
      [] OTHER -> TRUE

\* a || b
OrElse(a, b) == IF Truthy(a) THEN a ELSE b

\* The text a template literal puts for v (an array or an object is not put
\* in a template by the inputs of the model).
ToText(v) ==
    IF v.k = "undefined" THEN <<"u", "n", "d", "e", "f", "i", "n", "e", "d">> ELSE v.s

\* JSON.stringify followed by JSON.parse, as a value goes through a file or a
\* response body: a member whose value is undefined is dropped.
RECURSIVE ThroughJson(_)
ThroughJson(v) ==
    IF v.k = "object" THEN
        LET kept == SelectSeq(v.m, LAMBDA x : x.val.k # "undefined")
        IN  Object([i \in 1..Len(kept) |-> [key |-> kept[i].key, val |-> ThroughJson(kept[i].val)]])
    ELSE IF v.k = "array" THEN
        Array([i \in 1..Len(v.m) |->
                 IF v.m[i].val.k = "undefined" THEN Null ELSE ThroughJson(v.m[i].val)])
    ELSE v

\* ------------------------------------------------------------ JSON.parse

ParseFail == [ok |-> FALSE, i |-> 0, v |-> Undefined]

RECURSIVE SkipWs(_, _)
SkipWs(t, i) == IF i <= Len(t) /\ JsonWhite(t[i]) THEN SkipWs(t, i + 1) ELSE i

\* The index of the quote closing the string literal whose content starts at
\* j, 0 when the literal is not a JSON string.
\* The characters the string literal's scan moves on from j: 0 where the
\* literal ends or breaks (a quote, the end, a bad escape, a control
\* character).
StrAdvance(t, j) ==
    IF j > Len(t) \/ t[j] = "\"" THEN 0
    ELSE IF t[j] = "\\" THEN
        IF j + 1 > Len(t) THEN 0
        ELSE IF t[j + 1] \in {"\"", "\\", "/", "b", "f", "n", "r", "t"} THEN 2
        ELSE IF /\ t[j + 1] = "u"
                /\ j + 5 <= Len(t)
                /\ \A d \in 2..5 : t[j + d] \in HexDigit
            THEN 6
        ELSE 0
    ELSE IF IsControl(t[j]) THEN 0
    ELSE 1

RECURSIVE StrEnd(_, _)
StrEnd(t, j) ==
    IF StrAdvance(t, j) # 0 THEN StrEnd(t, j + StrAdvance(t, j))
    ELSE IF j <= Len(t) /\ t[j] = "\"" THEN j
    ELSE 0

RECURSIVE DigitsEnd(_, _)
DigitsEnd(t, i) == IF i <= Len(t) /\ t[i] \in Digit THEN DigitsEnd(t, i + 1) ELSE i

\* The index after the JSON number that starts at i, 0 when there is none:
\* the integer part from a, the fraction from b, the exponent from c.
ExponentEnd(t, c) ==
    IF c = 0 THEN 0
    ELSE IF c <= Len(t) /\ t[c] \in {"e", "E"} THEN
        IF c + 1 <= Len(t) /\ t[c + 1] \in {"+", "-"}
        THEN IF c + 2 <= Len(t) /\ t[c + 2] \in Digit THEN DigitsEnd(t, c + 2) ELSE 0
        ELSE IF c + 1 <= Len(t) /\ t[c + 1] \in Digit THEN DigitsEnd(t, c + 1) ELSE 0
    ELSE c

FractionEnd(t, b) ==
    IF b <= Len(t) /\ t[b] = "."
    THEN IF b + 1 <= Len(t) /\ t[b + 1] \in Digit THEN DigitsEnd(t, b + 1) ELSE 0
    ELSE b

IntegerEnd(t, a) ==
    IF a > Len(t) \/ t[a] \notin Digit THEN 0
    ELSE ExponentEnd(t, FractionEnd(t, IF t[a] = "0" THEN a + 1 ELSE DigitsEnd(t, a)))

NumEnd(t, i) == IntegerEnd(t, IF t[i] = "-" THEN i + 1 ELSE i)

Literals == {<<"t", "r", "u", "e">>, <<"f", "a", "l", "s", "e">>, <<"n", "u", "l", "l">>}

LiteralKind(w) == IF w = <<"n", "u", "l", "l">> THEN "null" ELSE "boolean"

Parsed(i, v) == [ok |-> TRUE, i |-> i, v |-> v]

RECURSIVE ParseValue(_, _), ParseMembers(_, _, _), ParseElems(_, _, _)

\* After a member's value: the closing brace ends the object, a comma leads
\* to the next key.
MemberNext(t, n, acc) ==
    IF n > Len(t) THEN ParseFail
    ELSE IF t[n] = "}" THEN Parsed(n + 1, Val("object", <<>>, acc))
    ELSE IF t[n] = "," THEN ParseMembers(t, SkipWs(t, n + 1), acc)
    ELSE ParseFail

\* A member whose value parsed as r (a repeated key keeps its place and takes
\* the later value).
MemberValue(t, key, r, acc) ==
    IF r.ok THEN MemberNext(t, SkipWs(t, r.i), PutMember(acc, key, r.v)) ELSE ParseFail

\* The colon at c after the key that ends at e.
MemberColon(t, k, e, c, acc) ==
    IF c > Len(t) \/ t[c] # ":" THEN ParseFail
    ELSE MemberValue(t, SubSeq(t, k + 1, e - 1), ParseValue(t, c + 1), acc)

MemberKey(t, k, e, acc) ==
    IF e = 0 THEN ParseFail ELSE MemberColon(t, k, e, SkipWs(t, e + 1), acc)

\* The members of an object from the key at k on; acc holds those read so
\* far.
ParseMembers(t, k, acc) ==
    IF k > Len(t) \/ t[k] # "\"" THEN ParseFail
    ELSE MemberKey(t, k, StrEnd(t, k + 1), acc)

\* After an element: the closing bracket ends the array, a comma leads to the
\* next element.
ElemNext(t, n, acc) ==
    IF n > Len(t) THEN ParseFail
    ELSE IF t[n] = "]" THEN Parsed(n + 1, Val("array", <<>>, acc))
    ELSE IF t[n] = "," THEN ParseElems(t, SkipWs(t, n + 1), acc)
    ELSE ParseFail

ElemValue(t, r, acc) ==
    IF r.ok THEN ElemNext(t, SkipWs(t, r.i), Append(acc, [key |-> <<>>, val |-> r.v]))
    ELSE ParseFail

\* The elements of an array from the value at k on.
ParseElems(t, k, acc) == ElemValue(t, ParseValue(t, k), acc)

ObjectAt(t, k) ==
    IF k <= Len(t) /\ t[k] = "}" THEN Parsed(k + 1, Val("object", <<>>, <<>>))
    ELSE ParseMembers(t, k, <<>>)

ArrayAt(t, k) ==
    IF k <= Len(t) /\ t[k] = "]" THEN Parsed(k + 1, Val("array", <<>>, <<>>))
    ELSE ParseElems(t, k, <<>>)

StringAt(t, j, e) ==
    IF e = 0 THEN ParseFail ELSE Parsed(e + 1, Val("string", SubSeq(t, j + 1, e - 1), <<>>))

LiteralAt(t, j, w) == Parsed(j + Len(w), Val(LiteralKind(w), w, <<>>))

NumberAt(t, j, n) ==
    IF n = 0 THEN ParseFail ELSE Parsed(n, Val("number", SubSeq(t, j, n - 1), <<>>))

\* The JSON value that starts at j.
ValueAt(t, j) ==
    IF j > Len(t) THEN ParseFail
    ELSE IF t[j] = "{" THEN ObjectAt(t, SkipWs(t, j + 1))
    ELSE IF t[j] = "[" THEN ArrayAt(t, SkipWs(t, j + 1))
    ELSE IF t[j] = "\"" THEN StringAt(t, j, StrEnd(t, j + 1))
    ELSE IF \E w \in Literals : StartsWith(SubSeq(t, j, Len(t)), w)
        THEN LiteralAt(t, j, CHOOSE w \in Literals : StartsWith(SubSeq(t, j, Len(t)), w))
    ELSE NumberAt(t, j, NumEnd(t, j))

\* One JSON value starting at or after i (whitespace skipped).
ParseValue(t, i) == ValueAt(t, SkipWs(t, i))

\* JSON.parse: ok is FALSE where JSON.parse throws a SyntaxError.
WholeText(t, r) ==
    IF r.ok /\ SkipWs(t, r.i) > Len(t)
    THEN [ok |-> TRUE, v |-> r.v]
    ELSE [ok |-> FALSE, v |-> Undefined]

JSONparse(t) == WholeText(t, ParseValue(t, 1))

\* ------------------------------------------------- the Response Normalizer

\* U+0060, one code unit.
BACKTICK == "BACKTICK"

Fence == <<BACKTICK, BACKTICK, BACKTICK>>

FenceJson == Fence \o <<"j", "s", "o", "n">>

\* The replacement of a leading fence with the json tag and the whitespace
\* after it (first replace of line 298).
StripFenceJsonStart(s) ==
    IF StartsWith(s, FenceJson)
    THEN TrimStart(SubSeq(s, Len(FenceJson) + 1, Len(s))) ELSE s

\* The replacement of a leading fence and the whitespace after it.
StripFenceStart(s) ==
    IF StartsWith(s, Fence) THEN TrimStart(SubSeq(s, Len(Fence) + 1, Len(s))) ELSE s

\* The replacement of a closing fence at the end and the whitespace before it.
StripFenceEnd(s) ==
    IF EndsWith(s, Fence) THEN TrimEnd(SubSeq(s, 1, Len(s) - Len(Fence))) ELSE s

\* The cleaning all three parsers start with: trim, then the two pairs of
\* fence replacements.
cleanResponse(response) ==
    StripFenceEnd(StripFenceStart(StripFenceEnd(StripFenceJsonStart(trim(response)))))

\* The scanner's variables before the loop; jsonStart = 0 stands for -1.
ScanInit == [braceCount |-> 0, inString |-> FALSE, escapeNext |-> FALSE, jsonStart |-> 0]

\* One turn of the scanner's loop that does not end it: the flags and the
\* counters after the character at i.
ScanStep(s, i, st) ==
    LET char == s[i]
        inStr == IF char = "\"" THEN ~st.inString ELSE st.inString
    IN  IF st.escapeNext THEN [st EXCEPT !.escapeNext = FALSE]
        ELSE IF char = "\\" THEN [st EXCEPT !.escapeNext = TRUE]
        ELSE IF inStr THEN [st EXCEPT !.inString = inStr]
        ELSE IF char = "{" THEN
            [st EXCEPT !.inString = inStr,
                       !.jsonStart = IF st.braceCount = 0 THEN i ELSE @,
                       !.braceCount = @ + 1]
        ELSE IF char = "}" THEN [st EXCEPT !.inString = inStr, !.braceCount = @ - 1]
        ELSE [st EXCEPT !.inString = inStr]

\* The turn that ends the loop, were the scanner blind to string literals.
ScanBreakInString(s, i, st) ==
    /\ ~st.escapeNext
    /\ s[i] = "}"
    /\ st.braceCount - 1 = 0
    /\ st.jsonStart # 0

\* The turn that ends the loop: a closing brace outside a string that brings
\* braceCount back to 0 with jsonStart set.
ScanBreak(s, i, st) ==
    /\ ~st.escapeNext
    /\ s[i] = "}"
    /\ ~st.inString
    /\ st.braceCount - 1 = 0
    /\ st.jsonStart # 0

\* The scanner's loop from index i on: the first span at whose end braceCount
\* returns to 0 with jsonStart set, <<>> (jsonStr = '') when the loop runs out.
RECURSIVE ScanFrom(_, _, _)
ScanFrom(s, i, st) ==
    IF i > Len(s) THEN <<>>
    ELSE IF ScanBreak(s, i, st) THEN SubSeq(s, st.jsonStart, i)
    ELSE ScanFrom(s, i + 1, ScanStep(s, i, st))

scanBalanced(s) == ScanFrom(s, 1, ScanInit)

\* The greedy match: from the first opening brace to the last closing brace,
\* <<>> when the match is null.
greedyMatch(s) ==
    LET f == indexOf(s, "{")
        l == lastIndexOf(s, "}")
    IN  IF f # 0 /\ l > f THEN SubSeq(s, f, l) ELSE <<>>

\* The candidate of parseExtractResponse and parseMergeResponse: the scanner's
\* span, the greedy match when the scanner found none.
FirstFound(jsonStr, clean) == IF jsonStr # <<>> THEN jsonStr ELSE greedyMatch(clean)

ScanOrGreedy(clean) == FirstFound(scanBalanced(clean), clean)

scanCandidate(response) == ScanOrGreedy(cleanResponse(response))

\* The candidate of parseConvertResponse: the greedy match alone.
greedyCandidate(response) == greedyMatch(cleanResponse(response))

\* The replacement of a leading character c.
StripLead(s, c) == IF s # <<>> /\ Head(s) = c THEN Tail(s) ELSE s

\* The replacement of everything before the first opening brace.
StripBeforeBrace(s) ==
    LET f == indexOf(s, "{") IN IF f = 0 THEN <<>> ELSE SubSeq(s, f, Len(s))

\* The replacement of everything after the last closing brace.
StripAfterBrace(s) == SubSeq(s, 1, lastIndexOf(s, "}"))

\* The removal of the control characters other than newline, carriage
\* return and tab (form feed stands for them).
StripControl(s) == SelectSeq(s, LAMBDA c : c # "\f")

\* The first index in i..j that holds c, 0 when there is none.
RECURSIVE IndexIn(_, _, _, _)
IndexIn(s, c, i, j) ==
    IF i > j THEN 0 ELSE IF s[i] = c THEN i ELSE IndexIn(s, c, i + 1, j)

\* The global replacement of lines 665-667 from index i on: between a quote
\* and the next quote, the first c becomes backslash e; matching resumes after
\* the second quote, and at the following character when there is no c.
RECURSIVE EscapeBetweenQuotes(_, _, _, _)
EscapeBetweenQuotes(s, c, e, i) ==
    LET q == IndexFrom(s, "\"", i + 1)
        n == IndexIn(s, c, i + 1, q - 1)
    IN  IF i > Len(s) THEN <<>>
        ELSE IF s[i] = "\"" /\ q # 0 /\ n # 0
            THEN SubSeq(s, i, n - 1) \o <<"\\", e>> \o SubSeq(s, n + 1, q)
                 \o EscapeBetweenQuotes(s, c, e, q + 1)
        ELSE <<s[i]>> \o EscapeBetweenQuotes(s, c, e, i + 1)

RECURSIVE SkipWhite(_, _)
SkipWhite(s, i) == IF i <= Len(s) /\ IsWhite(s[i]) THEN SkipWhite(s, i + 1) ELSE i

\* The global replacement of a comma, the whitespace after it and c by c,
\* from index i on; c is a closing brace or bracket.
RECURSIVE StripTrailingComma(_, _, _)
StripTrailingComma(s, c, i) ==
    LET j == SkipWhite(s, i + 1)
    IN  IF i > Len(s) THEN <<>>
        ELSE IF s[i] = "," /\ j <= Len(s) /\ s[j] = c
            THEN <<c>> \o StripTrailingComma(s, c, j + 1)
        ELSE <<s[i]>> \o StripTrailingComma(s, c, i + 1)

\* fixUnterminatedStrings: the text copied character by character, a quote
\* appended when the copy ends inside a string literal.
RECURSIVE UnterminatedFrom(_, _, _, _)
UnterminatedFrom(s, i, inString, escapeNext) ==
    IF i > Len(s) THEN inString
    ELSE UnterminatedFrom(s, i + 1,
                          IF ~escapeNext /\ s[i] = "\"" THEN ~inString ELSE inString,
                          ~escapeNext /\ s[i] = "\\")

fixUnterminatedStrings(jsonStr) ==
    IF UnterminatedFrom(jsonStr, 1, FALSE, FALSE) THEN Append(jsonStr, "\"") ELSE jsonStr

\* The chain of replacements fixJsonString applies when JSON.parse throws.
deepClean(jsonStr) ==
    LET a == StripLead(StripLead(StripLead(jsonStr, BOM), ZWSP), NBSP)
        b == StripControl(StripAfterBrace(StripBeforeBrace(a)))
        c == EscapeBetweenQuotes(b, "\n", "n", 1)
        d == EscapeBetweenQuotes(c, "\r", "r", 1)
        e == EscapeBetweenQuotes(d, "\t", "t", 1)
    IN  StripTrailingComma(StripTrailingComma(e, "}", 1), "]", 1)

\* The last two steps of fixJsonString: cut before the first "{" and after the
\* last "}" when the text does not start and end with them.
cutToBraces(cleaned) ==
    LET f == indexOf(cleaned, "{")
        a == IF ~StartsWith(cleaned, <<"{">>) /\ f # 0
             THEN SubSeq(cleaned, f, Len(cleaned)) ELSE cleaned
        l == lastIndexOf(a, "}")
    IN  IF ~EndsWith(a, <<"}">>) /\ l # 0 THEN SubSeq(a, 1, l) ELSE a

fixJsonString(jsonStr) ==
    IF JSONparse(jsonStr).ok THEN jsonStr
    ELSE cutToBraces(fixUnterminatedStrings(deepClean(jsonStr)))

\* ------------------------------------------------------- ModelscopeService

\* Property names.
kId == <<"i", "d">>
kType == <<"t", "y", "p", "e">>
kName == <<"n", "a", "m", "e">>
kPattern == <<"p", "a", "t", "t", "e", "r", "n">>
kDescription == <<"d", "e", "s", "c", "r", "i", "p", "t", "i", "o", "n">>
kExamples == <<"e", "x", "a", "m", "p", "l", "e", "s">>
kCreatedAt == <<"c", "r", "e", "a", "t", "e", "d", "A", "t">>
kUpdatedAt == <<"u", "p", "d", "a", "t", "e", "d", "A", "t">>
kRules == <<"r", "u", "l", "e", "s">>
kSuccess == <<"s", "u", "c", "c", "e", "s", "s">>
kError == <<"e", "r", "r", "o", "r">>
kMessage == <<"m", "e", "s", "s", "a", "g", "e">>
kData == <<"d", "a", "t", "a">>
kMergedRule == <<"m", "e", "r", "g", "e", "d", "R", "u", "l", "e">>
kSummary == <<"s", "u", "m", "m", "a", "r", "y">>
kConfidence == <<"c", "o", "n", "f", "i", "d", "e", "n", "c", "e">>
kConvertedContent ==
    <<"c", "o", "n", "v", "e", "r", "t", "e", "d", "C", "o", "n", "t", "e", "n", "t">>
kAppliedRules == <<"a", "p", "p", "l", "i", "e", "d", "R", "u", "l", "e", "s">>
kLength == <<"l", "e", "n", "g", "t", "h">>
kStyleTypes == <<"s", "t", "y", "l", "e", "T", "y", "p", "e", "s">>
kRuleIds == <<"r", "u", "l", "e", "I", "d", "s">>
kContent == <<"c", "o", "n", "t", "e", "n", "t">>

\* Messages; each stands for the text of the source as one unit.
MsgNoToken == String(<<"[MODELSCOPE_ACCESS_TOKEN not configured]">>)
MsgProvider == String(<<"[the provider's error message]">>)
MsgEmptyResult == String(<<"[the API returned an empty result]">>)
MsgNoRules == String(<<"[JSON parsed but no valid rule extracted]">>)
MsgNoMergedRule == String(<<"[JSON parsed but no merged rule]">>)
MsgNoJson == String(<<"[cannot extract JSON from the response]">>)
MsgSyntaxError == String(<<"[SyntaxError]">>)
MsgTypeError == String(<<"[TypeError]">>)
MsgParseFailed == String(<<"[parse failed]">>)
MsgMergeDone == String(<<"[rule merge done]">>)

\* Date.now() as text, and new Date().toISOString(), at clock value t.
DateNow(t) == Decimal(t)

toISOString(t) == Append(Decimal(t), "Z")

Number(s) == Val("number", s, <<>>)

\* A call that returned v, and a call that threw an Error with message e.
Return(v) == [ok |-> TRUE, v |-> v, err |-> Undefined]

Throw(e) == [ok |-> FALSE, v |-> Undefined, err |-> e]

\* The rule_<type>_<now> of lines 372 and 477.
MintRuleId(type, t) == String(<<"r", "u", "l", "e", "_">> \o ToText(type) \o <<"_">> \o DateNow(t))

\* The callback of parsed.rules.map: the rule with the id and the time stamps
\* it lacks.
fillRule(rule, t) ==
    Put(Put(Put(Spread(rule, Object(<<>>)),
                kId, OrElse(Get(rule, kId), MintRuleId(Get(rule, kType), t))),
            kCreatedAt, OrElse(Get(rule, kCreatedAt), String(toISOString(t)))),
        kUpdatedAt, OrElse(Get(rule, kUpdatedAt), String(toISOString(t))))

\* parsed.rules after the map, parsed as it is when rules is not an array;
\* rule.id of a null element throws a TypeError.
FillRules(parsed, rules, t) ==
    IF rules.k # "array" THEN Return(parsed)
    ELSE IF \E i \in 1..Len(rules.m) : rules.m[i].val.k = "null" THEN Throw(MsgTypeError)
    ELSE Return(Put(parsed, kRules,
                    Array([i \in 1..Len(rules.m) |-> fillRule(rules.m[i].val, t)])))

ExtractParsed(parsed, t) ==
    IF parsed.ok THEN FillRules(parsed.v, Get(parsed.v, kRules), t) ELSE Throw(MsgSyntaxError)

ExtractCandidate(jsonStr, t) ==
    IF jsonStr = <<>> THEN Throw(MsgNoJson)
    ELSE ExtractParsed(JSONparse(fixJsonString(jsonStr)), t)

parseExtractResponse(response, t) == ExtractCandidate(scanCandidate(response), t)

\* What parseConvertResponse returns from its catch block.
ConvertSoftResult ==
    Object(<<[key |-> kConvertedContent, val |-> String(<<>>)],
             [key |-> kAppliedRules, val |-> Array(<<>>)],
             [key |-> kSummary, val |-> MsgParseFailed],
             [key |-> kConfidence, val |-> Number(<<"0">>)]>>)

\* The conversion's parse, were a failed JSON.parse rethrown.
ConvertParsedRethrown(parsed) == IF parsed.ok THEN Return(parsed.v) ELSE Throw(MsgSyntaxError)

ConvertParsed(parsed) == IF parsed.ok THEN Return(parsed.v) ELSE Return(ConvertSoftResult)

ConvertCandidate(jsonStr) ==
    IF jsonStr = <<>> THEN Return(ConvertSoftResult)
    ELSE ConvertParsed(JSONparse(fixJsonString(jsonStr)))

parseConvertResponse(response) == ConvertCandidate(greedyCandidate(response))

MergeParsed(parsed) == IF parsed.ok THEN Return(parsed.v) ELSE Throw(MsgSyntaxError)

MergeCandidate(jsonStr) ==
    IF jsonStr = <<>> THEN Throw(MsgNoJson)
    ELSE MergeParsed(JSONparse(fixJsonString(jsonStr)))

parseMergeResponse(response) == MergeCandidate(scanCandidate(response))

\* { success: false, error }
Failure(e) == Object(<<[key |-> kSuccess, val |-> False], [key |-> kError, val |-> e]>>)

\* v.length
LengthOf(v) ==
    IF v.k = "array" THEN Number(Decimal(Len(v.m)))
    ELSE IF v.k = "string" THEN Number(Decimal(Len(v.s)))
    ELSE Get(v, kLength)

\* A number that is greater than 0.
Positive(v) == v.k = "number" /\ ~IsZero(v.s) /\ Head(v.s) # "-"

\* The providers a call can meet: no client (the token is not configured), a
\* client whose request throws, a client that answers with a completion.
Providers == {"none", "error", "ok"}

RECURSIVE JoinWith(_, _)
JoinWith(texts, sep) ==
    IF texts = <<>> THEN <<>>
    ELSE IF Len(texts) = 1 THEN texts[1]
    ELSE texts[1] \o sep \o JoinWith(Tail(texts), sep)

\* v.join(', '): a TypeError for a value that is not an array.
joinComma(v) ==
    IF v.k = "array"
    THEN Return(String(JoinWith([i \in 1..Len(v.m) |->
                                    IF v.m[i].val.k \in {"null", "undefined"} THEN <<>>
                                    ELSE ToText(v.m[i].val)], <<",", " ">>)))
    ELSE Throw(MsgTypeError)

kKind == <<"k", "i", "n", "d">>
kTypes == <<"t", "y", "p", "e", "s">>
kNewRule == <<"n", "e", "w", "R", "u", "l", "e">>
kExisting == <<"e", "x", "i", "s", "t", "i", "n", "g">>
kTargetStyle == <<"t", "a", "r", "g", "e", "t", "S", "t", "y", "l", "e">>

AllTypesText == String(<<"[all recognisable style types]">>)

\* The prompts, each as the record of what the template interpolates.
buildExtractPrompt(content, styleTypes) ==
    LET typesText == IF Truthy(styleTypes) /\ Positive(LengthOf(styleTypes))
                     THEN joinComma(styleTypes) ELSE Return(AllTypesText)
    IN  IF ~typesText.ok THEN typesText
        ELSE Return(Object(<<[key |-> kKind, val |-> String(<<"extract">>)],
                             [key |-> kContent, val |-> content],
                             [key |-> kTypes, val |-> typesText.v]>>))

\* The line of a rule in the conversion and merge prompts.
promptRule(rule) ==
    Object(<<[key |-> kName, val |-> String(ToText(OrElse(Get(rule, kName), Get(rule, kType))))],
             [key |-> kPattern, val |-> String(ToText(Get(rule, kPattern)))],
             [key |-> kDescription, val |-> String(ToText(Get(rule, kDescription)))]>>)

buildConvertPrompt(content, rules, targetStyle) ==
    Return(Object(<<[key |-> kKind, val |-> String(<<"convert">>)],
                    [key |-> kContent, val |-> content],
                    [key |-> kRules, val |-> Array([i \in 1..Len(rules) |-> promptRule(rules[i])])],
                    [key |-> kTargetStyle, val |-> targetStyle]>>))

\* rule.examples.join throws for a rule whose examples are not an array.
buildMergePrompt(newRule, existingRules) ==
    LET line(rule) == Put(promptRule(rule), kExamples, joinComma(Get(rule, kExamples)).v)
    IN  IF \/ ~joinComma(Get(newRule, kExamples)).ok
           \/ \E i \in 1..Len(existingRules) : ~joinComma(Get(existingRules[i], kExamples)).ok
        THEN Throw(MsgTypeError)
        ELSE Return(Object(<<[key |-> kKind, val |-> String(<<"merge">>)],
                             [key |-> kNewRule, val |-> line(newRule)],
                             [key |-> kExisting,
                              val |-> Array([i \in 1..Len(existingRules) |->
                                               line(existingRules[i])])]>>))

\* { success: true, ...parsedResult }
Success(parsedResult) == Spread(Object(<<[key |-> kSuccess, val |-> True]>>), parsedResult)

\* The try block of a service call up to the completion: the error the catch
\* block reports, Undefined when the completion arrived.
CallError(provider, completion, prompt) ==
    IF ~prompt.ok THEN prompt.err
    ELSE IF provider = "error" THEN MsgProvider
    ELSE IF completion = <<>> THEN MsgEmptyResult
    ELSE Undefined

\* The value returned, were parsedResult.rules not checked.
ExtractUnchecked(parsedResult, rules) == Success(parsedResult)

\* The check of parsedResult.rules and the value returned.
ExtractChecked(parsedResult, rules) ==
    IF ~Truthy(rules) \/ LengthOf(rules) = Number(<<"0">>)
    THEN Failure(MsgNoRules) ELSE Success(parsedResult)

ExtractReturned(parsedResult) ==
    IF parsedResult.ok THEN ExtractChecked(parsedResult.v, Get(parsedResult.v, kRules))
    ELSE Failure(parsedResult.err)

ExtractCalled(callError, completion, t) ==
    IF callError # Undefined THEN Failure(callError)
    ELSE ExtractReturned(parseExtractResponse(completion, t))

extractStyles(provider, completion, content, styleTypes, t) ==
    IF provider = "none" THEN Failure(MsgNoToken)
    ELSE ExtractCalled(CallError(provider, completion, buildExtractPrompt(content, styleTypes)),
                       completion, t)

ConvertReturned(parsedResult) ==
    IF parsedResult.ok THEN Success(parsedResult.v) ELSE Failure(parsedResult.err)

ConvertCalled(callError, completion) ==
    IF callError # Undefined THEN Failure(callError)
    ELSE ConvertReturned(parseConvertResponse(completion))

convertStyles(provider, completion, content, rules, targetStyle) ==
    IF provider = "none" THEN Failure(MsgNoToken)
    ELSE ConvertCalled(CallError(provider, completion,
                                 buildConvertPrompt(content, rules, targetStyle)), completion)

\* existingRules[0]?.createdAt
FirstCreatedAt(existingRules) ==
    IF existingRules = <<>> THEN Undefined ELSE Get(existingRules[1], kCreatedAt)

\* The mergedRule of lines 475-481.
StampMerged(body, newRule, existingRules, t) ==
    Put(Put(Put(Put(Spread(body, Object(<<>>)),
                    kId, OrElse(Get(newRule, kId), MintRuleId(Get(newRule, kType), t))),
                kType, Get(newRule, kType)),
            kCreatedAt, OrElse(FirstCreatedAt(existingRules), String(toISOString(t)))),
        kUpdatedAt, String(toISOString(t)))

MergeChecked(parsedResult, newRule, existingRules, t) ==
    IF ~Truthy(Get(parsedResult, kMergedRule)) THEN Failure(MsgNoMergedRule)
    ELSE Object(<<[key |-> kSuccess, val |-> True],
                  [key |-> kData,
                   val |-> Object(<<[key |-> kMergedRule,
                                     val |-> StampMerged(Get(parsedResult, kMergedRule),
                                                         newRule, existingRules, t)],
                                    [key |-> kSummary,
                                     val |-> OrElse(Get(parsedResult, kSummary), MsgMergeDone)],
                                    [key |-> kConfidence,
                                     val |-> OrElse(Get(parsedResult, kConfidence),
                                                    Number(<<"0", ".", "9">>))]>>)]>>)

MergeReturned(parsedResult, newRule, existingRules, t) ==
    IF parsedResult.ok THEN MergeChecked(parsedResult.v, newRule, existingRules, t)
    ELSE Failure(parsedResult.err)

MergeCalled(callError, completion, newRule, existingRules, t) ==
    IF callError # Undefined THEN Failure(callError)
    ELSE MergeReturned(parseMergeResponse(completion), newRule, existingRules, t)

mergeRules(provider, completion, newRule, existingRules, t) ==
    IF provider = "none" THEN Failure(MsgNoToken)
    ELSE MergeCalled(CallError(provider, completion, buildMergePrompt(newRule, existingRules)),
                     completion, newRule, existingRules, t)

\* ---------------------------------------------------------- StorageService

\* What a write followed by a read of a data file does to each record.
saved(records) == [i \in 1..Len(records) |-> ThroughJson(records[i])]

\* addRules, were the file written with the new rules alone.
addRulesOverwriting(file, newRules) == saved(newRules)

\* addRules: the file after the call.
addRules(file, newRules) == saved(file \o newRules)

\* getRulesByIds
getRulesByIds(file, ids) ==
    SelectSeq(file, LAMBDA rule :
        Truthy(Get(rule, kId)) /\ \E i \in 1..Len(ids) : ids[i] = Get(rule, kId))

\* rules.findIndex(rule => rule.id === id), 0 for -1.
RECURSIVE FindIndexFrom(_, _, _)
FindIndexFrom(file, id, i) ==
    IF i > Len(file) THEN 0
    ELSE IF Get(file[i], kId) = id THEN i
    ELSE FindIndexFrom(file, id, i + 1)

\* updateRule, were updatedAt left as it is.
updateRuleUnstamped(file, id, updatedRule, t) ==
    LET index == FindIndexFrom(file, id, 1)
        rule == Spread(file[index], updatedRule)
    IN  IF index = 0 THEN [file |-> file, result |-> Null]
        ELSE [file |-> saved([file EXCEPT ![index] = rule]), result |-> rule]

\* updateRule: the file after the call and what the call returns (Null for
\* an id that is not found).
updateRule(file, id, updatedRule, t) ==
    LET index == FindIndexFrom(file, id, 1)
        rule == Put(Spread(file[index], updatedRule), kUpdatedAt, String(toISOString(t)))
    IN  IF index = 0 THEN [file |-> file, result |-> Null]
        ELSE [file |-> saved([file EXCEPT ![index] = rule]), result |-> rule]

\* deleteRule: the file after the call and whether a rule was removed.
deleteRule(file, id) ==
    LET filteredRules == SelectSeq(file, LAMBDA rule : Get(rule, kId) # id)
    IN  IF Len(filteredRules) = Len(file) THEN [file |-> file, result |-> FALSE]
        ELSE [file |-> saved(filteredRules), result |-> TRUE]

\* The clock value of a time stamp written by toISOString.
RECURSIVE ParseDecimal(_)
ParseDecimal(s) ==
    IF s = <<>> THEN 0
    ELSE 10 * ParseDecimal(SubSeq(s, 1, Len(s) - 1))
         + (CHOOSE d \in 0..9 : DigitChar[d + 1] = s[Len(s)])

getTime(stamp) == ParseDecimal(SubSeq(stamp.s, 1, Len(stamp.s) - 1))

\* The clock values of the records' time stamps.
Times(records) == [i \in 1..Len(records) |-> getTime(Get(records[i], kCreatedAt))] \o <<>>

\* The place of each record after the stable descending sort of getHistory:
\* behind the records that are newer and behind the records of the same time
\* that come before it.
Ranks(T) ==
    [i \in 1..Len(T) |->
        Cardinality({j \in 1..Len(T) : T[j] > T[i] \/ (T[j] = T[i] /\ j < i)}) + 1] \o <<>>

Placed(records, R) == [k \in 1..Len(records) |-> records[CHOOSE i \in 1..Len(R) : R[i] = k]]

SortByTime(records) == Placed(records, Ranks(Times(records)))

\* getHistory: the file sorted newest first.
getHistory(file) == SortByTime(file)

HistoryLimit == 100

kOriginalContent == <<"o", "r", "i", "g", "i", "n", "a", "l", "C", "o", "n", "t", "e", "n", "t">>
kAppliedRuleIds == <<"a", "p", "p", "l", "i", "e", "d", "R", "u", "l", "e", "I", "d", "s">>

\* addHistoryRecord, were the new record put last and the first one dropped.
addHistoryRecordAppending(file, record, t) ==
    LET newRecord == Put(Spread(Object(<<[key |-> kId,
                                          val |-> String(<<"c", "o", "n", "v", "_">> \o DateNow(t))]>>),
                                record),
                         kCreatedAt, String(toISOString(t)))
        history == getHistory(file) \o <<newRecord>>
    IN  saved(IF Len(history) > HistoryLimit THEN SubSeq(history, 2, Len(history)) ELSE history)

\* addHistoryRecord, were the records already there stamped again.
addHistoryRecordRestamped(file, record, t) ==
    saved(<<Put(Spread(Object(<<[key |-> kId,
                                 val |-> String(<<"c", "o", "n", "v", "_">> \o DateNow(t))]>>),
                       record),
                kCreatedAt, String(toISOString(t)))>>
          \o [i \in 1..Len(file) |-> Put(getHistory(file)[i], kCreatedAt, String(toISOString(t)))])

\* addHistoryRecord: the file after the call.
addHistoryRecord(file, record, t) ==
    LET newRecord == Put(Spread(Object(<<[key |-> kId,
                                          val |-> String(<<"c", "o", "n", "v", "_">> \o DateNow(t))]>>),
                                record),
                         kCreatedAt, String(toISOString(t)))
        history == <<newRecord>> \o getHistory(file)
    IN  saved(IF Len(history) > HistoryLimit THEN SubSeq(history, 1, HistoryLimit) ELSE history)

\* ------------------------------------------------------ routes/markdown.ts

kRule == <<"r", "u", "l", "e">>
kMerged == <<"m", "e", "r", "g", "e", "d">>
kMergedCount == <<"m", "e", "r", "g", "e", "d", "C", "o", "u", "n", "t">>

MsgBadContent == String(<<"[please provide valid Markdown content]">>)
MsgBadText == String(<<"[please provide valid text content]">>)
MsgNoRuleIds == String(<<"[please select the rules to apply]">>)
MsgRulesNotFound == String(<<"[the rules were not found]">>)
MsgServerError == String(<<"[internal server error]">>)
MsgIncompleteRule == String(<<"[type, pattern and description must not be empty]">>)
MsgEmptyName == String(<<"[the rule name must not be an empty string]">>)
MsgRuleMerged == String(<<"[rule merged]">>)
MsgRuleAdded == String(<<"[rule added]">>)
MsgRuleMissing == String(<<"[the rule does not exist]">>)
MsgRuleUpdated == String(<<"[rule updated]">>)
MsgRuleDeleted == String(<<"[rule deleted]">>)

\* The two code units appended to the type for a rule without a name.
RuleSuffix == <<"U+89C4", "U+5219">>

\* What a handler leaves: the two data files, the status and the body sent.
Reply(rulesFile, historyFile, status, body) ==
    [rules |-> rulesFile, history |-> historyFile, status |-> status, res |-> ThroughJson(body)]

\* { success: false, message }
Refusal(message) ==
    Object(<<[key |-> kSuccess, val |-> False], [key |-> kMessage, val |-> message]>>)

\* The handler of POST /extract from the service's result on; spreading
\* result.rules throws when it is not iterable.
ExtractSaved(rulesFile, historyFile, result, rules) ==
    IF Truthy(Get(result, kSuccess)) /\ Truthy(rules) /\ Positive(LengthOf(rules))
    THEN IF rules.k = "array"
         THEN Reply(addRules(rulesFile, Elems(rules)), historyFile, 200, result)
         ELSE Reply(rulesFile, historyFile, 500,
                    Object(<<[key |-> kSuccess, val |-> False],
                             [key |-> kRules, val |-> Array(<<>>)],
                             [key |-> kMessage, val |-> MsgServerError]>>))
    ELSE Reply(rulesFile, historyFile, 200, result)

ExtractResult(rulesFile, historyFile, result) ==
    ExtractSaved(rulesFile, historyFile, result, Get(result, kRules))

ExtractRequest(rulesFile, historyFile, content, styleTypes, provider, completion, t) ==
    IF ~Truthy(content) \/ content.k # "string"
    THEN Reply(rulesFile, historyFile, 400, Refusal(MsgBadContent))
    ELSE ExtractResult(rulesFile, historyFile,
                       extractStyles(provider, completion, content, styleTypes, t))

\* router.post('/extract')
postExtract(rulesFile, historyFile, body, provider, completion, t) ==
    ExtractRequest(rulesFile, historyFile, Get(body, kContent), Get(body, kStyleTypes),
                   provider, completion, t)

\* The handler of POST /convert from the service's result on.
ConvertResult(rulesFile, historyFile, content, ruleIds, result, t) ==
    IF Truthy(Get(result, kSuccess))
    THEN Reply(rulesFile,
               addHistoryRecord(historyFile,
                   Object(<<[key |-> kOriginalContent, val |-> content],
                            [key |-> kConvertedContent, val |-> Get(result, kConvertedContent)],
                            [key |-> kAppliedRuleIds, val |-> ruleIds]>>), t),
               200, result)
    ELSE Reply(rulesFile, historyFile, 200, result)

\* The route, were the rules found not counted.
ConvertRulesUnchecked(rulesFile, historyFile, content, ruleIds, targetStyle, rules, provider, completion, t) ==
    ConvertResult(rulesFile, historyFile, content, ruleIds,
                  convertStyles(provider, completion, content, rules, targetStyle), t)

ConvertRules(rulesFile, historyFile, content, ruleIds, targetStyle, rules, provider, completion, t) ==
    IF Len(rules) = 0
    THEN Reply(rulesFile, historyFile, 404, Refusal(MsgRulesNotFound))
    ELSE ConvertResult(rulesFile, historyFile, content, ruleIds,
                       convertStyles(provider, completion, content, rules, targetStyle), t)

ConvertRequest(rulesFile, historyFile, content, ruleIds, targetStyle, provider, completion, t) ==
    IF ~Truthy(content) \/ content.k # "string"
    THEN Reply(rulesFile, historyFile, 400, Refusal(MsgBadText))
    ELSE IF ~Truthy(ruleIds) \/ ruleIds.k # "array" \/ Len(ruleIds.m) = 0
    THEN Reply(rulesFile, historyFile, 400, Refusal(MsgNoRuleIds))
    ELSE ConvertRules(rulesFile, historyFile, content, ruleIds, targetStyle,
                      getRulesByIds(rulesFile, Elems(ruleIds)), provider, completion, t)

\* router.post('/convert')
postConvert(rulesFile, historyFile, body, provider, completion, t) ==
    ConvertRequest(rulesFile, historyFile, Get(body, kContent), Get(body, kRuleIds),
                   Get(body, kTargetStyle), provider, completion, t)

\* A string that trim() leaves empty.
Blank(v) == v.k = "string" /\ trim(v.s) = <<>>

\* The loop of lines 196-198: deleteRule for sameTypeRules[i], i >= 2.
RECURSIVE deleteOthers(_, _, _)
deleteOthers(file, sameTypeRules, i) ==
    IF i > Len(sameTypeRules) THEN file
    ELSE deleteOthers(deleteRule(file, Get(sameTypeRules[i], kId)).file, sameTypeRules, i + 1)

\* The validation of POST /rules: the status it answers with, 0 when the
\* body passes; trim is not a function of a value that is not a string.
RuleRefused(type, pattern, description, name) ==
    IF ~Truthy(type) \/ ~Truthy(pattern) \/ ~Truthy(description) THEN 400
    ELSE IF type.k # "string" THEN 500
    ELSE IF Blank(type) THEN 400
    ELSE IF pattern.k # "string" THEN 500
    ELSE IF Blank(pattern) THEN 400
    ELSE IF description.k # "string" THEN 500
    ELSE IF Blank(description) THEN 400
    ELSE IF Truthy(name) /\ name.k # "string" THEN 500
    ELSE IF Truthy(name) /\ Blank(name) THEN 400
    ELSE 0

RuleRefusal(type, pattern, description, status) ==
    IF status = 500 THEN Refusal(MsgServerError)
    ELSE IF ~Truthy(type) \/ ~Truthy(pattern) \/ ~Truthy(description)
            \/ Blank(type) \/ Blank(pattern) \/ Blank(description)
    THEN Refusal(MsgIncompleteRule)
    ELSE Refusal(MsgEmptyName)

\* newRuleData of lines 157-163.
NewRuleData(type, name, pattern, description, examples) ==
    Object(<<[key |-> kType, val |-> type],
             [key |-> kName, val |-> OrElse(name, String(ToText(type) \o RuleSuffix))],
             [key |-> kPattern, val |-> pattern],
             [key |-> kDescription, val |-> description],
             [key |-> kExamples, val |-> OrElse(examples, Array(<<>>))]>>)

\* { id, ...newRuleData, createdAt, updatedAt } at clock value t.
Stamped(id, newRuleData, t) ==
    Put(Put(Spread(Object(<<[key |-> kId, val |-> id]>>), newRuleData),
            kCreatedAt, String(toISOString(t))),
        kUpdatedAt, String(toISOString(t)))

TempId(t) == String(<<"t", "e", "m", "p", "_">> \o DateNow(t))

NewId(t) == String(<<"r", "u", "l", "e", "_">> \o DateNow(t))

\* { success: true, rule, merged, mergedCount, message }
RuleReply(finalRule, merged, count) ==
    Object(<<[key |-> kSuccess, val |-> True],
             [key |-> kRule, val |-> finalRule],
             [key |-> kMerged, val |-> IF merged THEN True ELSE False],
             [key |-> kMergedCount, val |-> Number(Decimal(count))],
             [key |-> kMessage, val |-> IF merged THEN MsgRuleMerged ELSE MsgRuleAdded]>>)

\* finalRule of lines 188-193: the merged rule under the target's id and
\* creation time.
MergedFinal(mergedRule, targetRule, t) ==
    Put(Put(Put(Spread(mergedRule, Object(<<>>)),
                kId, Get(targetRule, kId)),
            kCreatedAt, Get(targetRule, kCreatedAt)),
        kUpdatedAt, String(toISOString(t)))

\* The updateData of lines 205-211.
UpdateData(finalRule) ==
    Object(<<[key |-> kType, val |-> Get(finalRule, kType)],
             [key |-> kName, val |-> Get(finalRule, kName)],
             [key |-> kPattern, val |-> Get(finalRule, kPattern)],
             [key |-> kDescription, val |-> Get(finalRule, kDescription)],
             [key |-> kExamples, val |-> Get(finalRule, kExamples)]>>)

\* The branch of a successful merge: the other rules of the type deleted,
\* the target updated.
MergeApplied(rulesFile, historyFile, sameTypeRules, finalRule, t) ==
    Reply(updateRule(deleteOthers(rulesFile, sameTypeRules, 2),
                     Get(finalRule, kId), UpdateData(finalRule), t).file,
          historyFile, 200, RuleReply(finalRule, TRUE, Len(sameTypeRules)))

\* The branch that adds the rule as a new record.
RuleAdded(rulesFile, historyFile, finalRule) ==
    Reply(addRules(rulesFile, <<finalRule>>), historyFile, 200, RuleReply(finalRule, FALSE, 0))

\* The branch taken on the merge result (mergeRules returns data with every
\* success).
MergeOutcome(rulesFile, historyFile, newRuleData, sameTypeRules, mergeResult, t) ==
    IF Truthy(Get(mergeResult, kSuccess)) /\ Truthy(Get(mergeResult, kData))
    THEN MergeApplied(rulesFile, historyFile, sameTypeRules,
                      MergedFinal(Get(Get(mergeResult, kData), kMergedRule), sameTypeRules[1], t),
                      t)
    ELSE RuleAdded(rulesFile, historyFile, Stamped(NewId(t), newRuleData, t))

RuleAccepted(rulesFile, historyFile, newRuleData, sameTypeRules, provider, completion, t) ==
    IF sameTypeRules # <<>>
    THEN MergeOutcome(rulesFile, historyFile, newRuleData, sameTypeRules,
                      mergeRules(provider, completion, Stamped(TempId(t), newRuleData, t),
                                 sameTypeRules, t), t)
    ELSE RuleAdded(rulesFile, historyFile, Stamped(NewId(t), newRuleData, t))

RuleRequest(rulesFile, historyFile, type, name, pattern, description, examples, status, provider, completion, t) ==
    IF status # 0
    THEN Reply(rulesFile, historyFile, status, RuleRefusal(type, pattern, description, status))
    ELSE RuleAccepted(rulesFile, historyFile,
                      NewRuleData(type, name, pattern, description, examples),
                      SelectSeq(rulesFile, LAMBDA rule : Get(rule, kType) = type),
                      provider, completion, t)

\* router.post('/rules')
postRules(rulesFile, historyFile, body, provider, completion, t) ==
    RuleRequest(rulesFile, historyFile, Get(body, kType), Get(body, kName),
                Get(body, kPattern), Get(body, kDescription), Get(body, kExamples),
                RuleRefused(Get(body, kType), Get(body, kPattern), Get(body, kDescription),
                            Get(body, kName)),
                provider, completion, t)

RuleUpdated(rulesFile, historyFile, updated) ==
    IF updated.result = Null
    THEN Reply(rulesFile, historyFile, 404, Refusal(MsgRuleMissing))
    ELSE Reply(updated.file, historyFile, 200,
               Object(<<[key |-> kSuccess, val |-> True],
                        [key |-> kRule, val |-> updated.result],
                        [key |-> kMessage, val |-> MsgRuleUpdated]>>))

\* router.put('/rules/:id')
putRule(rulesFile, historyFile, id, body, t) ==
    RuleUpdated(rulesFile, historyFile, updateRule(rulesFile, id, UpdateData(body), t))

RuleDeleted(rulesFile, historyFile, deleted) ==
    IF ~deleted.result
    THEN Reply(rulesFile, historyFile, 404, Refusal(MsgRuleMissing))
    ELSE Reply(deleted.file, historyFile, 200,
               Object(<<[key |-> kSuccess, val |-> True],
                        [key |-> kMessage, val |-> MsgRuleDeleted]>>))

\* router.delete('/rules/:id')
deleteRuleRoute(rulesFile, historyFile, id) ==
    RuleDeleted(rulesFile, historyFile, deleteRule(rulesFile, id))

\* ------------------------------------------------------------ the requests

\* The text of a JSON string, object and array, from the texts of the parts.
Quoted(s) == <<"\"">> \o s \o <<"\"">>

RECURSIVE Joined(_)
Joined(texts) ==
    IF texts = <<>> THEN <<>>
    ELSE IF Len(texts) = 1 THEN texts[1]
    ELSE texts[1] \o <<",">> \o Joined(Tail(texts))

ObjectText(pairs) ==
    <<"{">> \o Joined([i \in 1..Len(pairs) |-> Quoted(pairs[i][1]) \o <<":">> \o pairs[i][2]])
    \o <<"}">>

ArrayText(texts) == <<"[">> \o Joined(texts) \o <<"]">>

\* The rule types of the requests: heading and bold.
TypeH == <<"h">>
TypeB == <<"b">>

\* A rule as a completion writes it, without and with an id and a creation
\* time of its own.
RuleText(type) ==
    ObjectText(<< <<kType, Quoted(type)>>, <<kExamples, ArrayText(<<>>)>> >>)

StampedRuleText(type, id, createdAt) ==
    ObjectText(<< <<kId, Quoted(id)>>, <<kType, Quoted(type)>>,
                  <<kCreatedAt, Quoted(createdAt)>> >>)

RulesText(ruleTexts) == ObjectText(<< <<kRules, ArrayText(ruleTexts)>> >>)

\* The completions an extraction meets: one rule; two rules of one type; a
\* rule that brings its own id and creation time; no rules field; an empty
\* rules array; nothing.
ExtractCompletions ==
    { RulesText(<<RuleText(TypeH)>>),
      RulesText(<<RuleText(TypeB), RuleText(TypeB)>>),
      RulesText(<<StampedRuleText(TypeH, <<"x">>, <<"9", "Z">>)>>),
      ObjectText(<<>>),
      RulesText(<<>>),
      <<>> }

\* A merged rule body as a completion writes it.
MergedText(bodyPairs) == ObjectText(<< <<kMergedRule, ObjectText(bodyPairs)>> >>)

\* The completions a merge meets: a full body; a body with a name alone; an
\* object without mergedRule; prose; nothing.
MergeCompletions ==
    { MergedText(<< <<kName, Quoted(<<"m">>)>>, <<kDescription, Quoted(<<"e">>)>>,
                    <<kPattern, Quoted(<<"q">>)>>, <<kExamples, ArrayText(<<>>)>> >>),
      MergedText(<< <<kName, Quoted(<<"m">>)>> >>),
      ObjectText(<<>>),
      <<"a">>,
      <<>> }

\* The completions a conversion meets: a result; an object cut short; prose
\* around braces; prose; nothing.
ConvertCompletions ==
    { ObjectText(<< <<kConvertedContent, Quoted(<<"c">>)>>, <<kAppliedRules, ArrayText(<<>>)>> >>),
      <<"{">> \o Quoted(kConvertedContent) \o <<":">>,
      <<"a", "{", "a", "}">>,
      <<"a">>,
      <<>> }

\* Request bodies of POST /rules: a heading rule with a name, a bold rule
\* without one, and a body without pattern and description.
RuleBody(type, name) ==
    ThroughJson(Object(<<[key |-> kType, val |-> String(type)],
                         [key |-> kName, val |-> name],
                         [key |-> kPattern, val |-> String(<<"p">>)],
                         [key |-> kDescription, val |-> String(<<"d">>)]>>))

RuleBodies ==
    { RuleBody(TypeH, String(<<"n">>)),
      RuleBody(TypeB, Undefined),
      Object(<<[key |-> kType, val |-> String(TypeH)]>>) }

\* Request bodies of PUT /rules/:id: the type alone, the other fields left
\* out.
UpdateBodies == { Object(<<[key |-> kType, val |-> String(TypeB)]>>) }

kExtractTypes == <<"e", "x", "t", "r", "a", "c", "t", "T", "y", "p", "e", "s">>

\* extractStyles of src/services/api.ts: the body the UI client posts.
clientExtractBody(content, extractTypes) ==
    ThroughJson(Object(<<[key |-> kContent, val |-> content],
                         [key |-> kExtractTypes, val |-> extractTypes]>>))

\* Request bodies of POST /extract: from a caller that names the filter
\* styleTypes, from the UI client, and without content.
ExtractBodies ==
    { Object(<<[key |-> kContent, val |-> String(<<"#">>)],
               [key |-> kStyleTypes, val |-> Array(<<String(TypeH)>>)]>>),
      clientExtractBody(String(<<"#">>), Array(<<String(TypeH)>>)),
      Object(<<>>) }

MaxTime == 1

\* ------------------------------------------------------------- the server

VARIABLES
    rules,      \* the rules of data/rules.json
    history,    \* the records of data/conversion-history.json
    now,        \* the clock, in milliseconds
    last,       \* the last operation and what it answered
    response,   \* the completion given to the normalizer, with its parts
    ui,         \* the state of the Extract page
    call        \* the request a handler is serving, step by step

vars == <<rules, history, now, last, response, ui, call>>

MaxRules == 2

MaxHistory == 2

NoRequest == [op |-> "none", status |-> 0, res |-> Undefined]

NoResponse == [kind |-> "none", text |-> <<>>]

\* The Extract page before it is used, and no request being served.
NoUi == [pc |-> "none"]

NoCall == [pc |-> "none"]

Init ==
    /\ rules = <<>>
    /\ history = <<>>
    /\ now = 0
    /\ last = NoRequest
    /\ response = NoResponse
    /\ ui = NoUi
    /\ call = NoCall

\* The handler's effect on the files, and the response recorded.
Serve(op, reply) ==
    /\ Len(reply.rules) <= MaxRules
    /\ Len(reply.history) <= MaxHistory
    /\ rules' = reply.rules
    /\ history' = reply.history
    /\ last' = [op |-> op, status |-> reply.status, res |-> reply.res]
    /\ UNCHANGED <<now, response, ui, call>>

Tick ==
    /\ now < MaxTime
    /\ now' = now + 1
    /\ UNCHANGED <<rules, history, last, response, ui, call>>

\* The completions the provider can answer with: one of the texts when it
\* answers, none when the client is missing or the call throws.
Answers(provider, completions) == IF provider = "ok" THEN completions ELSE {<<>>}

\* The ids a request can name: those of the stored rules and one of no rule.
RequestIds == {Get(rules[i], kId) : i \in 1..Len(rules)} \cup {String(<<"y">>)}

\* Request bodies of POST /convert: one stored or unknown id, or none.
ConvertBodies ==
    { Object(<<[key |-> kContent, val |-> String(<<"#">>)],
               [key |-> kRuleIds, val |-> Array(<<id>>)]>>) : id \in RequestIds }
    \cup { Object(<<[key |-> kContent, val |-> String(<<"#">>)],
                    [key |-> kRuleIds, val |-> Array(<<>>)]>>) }

Extract ==
    \E body \in ExtractBodies, provider \in Providers :
        \E completion \in Answers(provider, ExtractCompletions) :
            Serve("extract", postExtract(rules, history, body, provider, completion, now))

Convert ==
    \E body \in ConvertBodies, provider \in Providers :
        \E completion \in Answers(provider, ConvertCompletions) :
            Serve("convert", postConvert(rules, history, body, provider, completion, now))

CreateRule ==
    \E body \in RuleBodies, provider \in Providers :
        \E completion \in Answers(provider, MergeCompletions) :
            Serve("createRule", postRules(rules, history, body, provider, completion, now))

UpdateRule ==
    \E id \in RequestIds, body \in UpdateBodies :
        Serve("updateRule", putRule(rules, history, id, body, now))

DeleteRule ==
    \E id \in RequestIds :
        Serve("deleteRule", deleteRuleRoute(rules, history, id))

\* The rules API: the requests that read and write the rule store.
Next == Tick \/ Extract \/ CreateRule \/ UpdateRule \/ DeleteRule

Spec == Init /\ [][Next]_vars

\* The conversion API over a store that one extraction has filled.
InitConvert ==
    /\ rules = postExtract(<<>>, <<>>, CHOOSE body \in ExtractBodies : Get(body, kStyleTypes) # Undefined,
                           "ok", RulesText(<<RuleText(TypeH)>>), 0).rules
    /\ history = <<>>
    /\ now = 0
    /\ last = NoRequest
    /\ response = NoResponse
    /\ ui = NoUi
    /\ call = NoCall

NextConvert == Tick \/ Convert

SpecConvert == InitConvert /\ [][NextConvert]_vars

\* ---------------------------------------------------------- the completions

\* A member of a JSON object: its key, the text of its value and the value.
Member(key, text, val) == [key |-> key, text |-> text, val |-> val]

StringMember(key, text) == Member(key, Quoted(text), String(text))

DocText(members) ==
    ObjectText([i \in 1..Len(members) |-> <<members[i].key, members[i].text>>])

DocValue(members) ==
    Object([i \in 1..Len(members) |-> [key |-> members[i].key, val |-> members[i].val]])

\* Well-formed objects: one string; a nested object; a string that holds a
\* closing brace; one rule; an empty rules array; no member; two strings; a
\* nested object and a string.
DocFlat == <<StringMember(<<"a">>, <<"b">>)>>

DocNested ==
    <<Member(<<"a">>, ObjectText(<< <<<<"b">>, Quoted(<<"c">>)>> >>),
             Object(<<[key |-> <<"b">>, val |-> String(<<"c">>)]>>))>>

DocBrace == <<StringMember(<<"a">>, <<"}">>)>>

DocRules ==
    <<Member(kRules, ArrayText(<<ObjectText(<< <<kType, Quoted(TypeH)>> >>)>>),
             Array(<<Object(<<[key |-> kType, val |-> String(TypeH)]>>)>>))>>

DocEmptyRules == <<Member(kRules, ArrayText(<<>>), Array(<<>>))>>

DocNone == <<>>

DocTwo == <<StringMember(<<"a">>, <<"b">>), StringMember(<<"c">>, <<"d", "e">>)>>

DocNestedTwo == DocNested \o <<StringMember(<<"d">>, <<"e">>)>>

WrappedDocs == {DocFlat, DocNested, DocBrace, DocRules, DocEmptyRules, DocNone}

\* The characters of the prose around an object: a letter, the braces, the
\* quote and the backslash.
ProseChars == {"a", "{", "}", "\"", "\\"}

\* The characters of the prose after it.
TailChars == {"a", "}"}

MaxPre == 2

MaxPost == 1

Prose(chars, n) == UNION {[1..k -> chars] : k \in 0..n}

Fences == {"none", "plain", "json"}

FenceOpen(fence) ==
    IF fence = "json" THEN FenceJson \o <<"\n">>
    ELSE IF fence = "plain" THEN Fence \o <<"\n">>
    ELSE <<>>

FenceClose(fence) == IF fence = "none" THEN <<>> ELSE <<"\n">> \o Fence

\* A completion: its text and the parts it was made of.
Completion(kind, text, doc, fence, pre, post, cut, sep) ==
    [kind |-> kind, text |-> text, doc |-> doc, fence |-> fence, pre |-> pre, post |-> post,
     cut |-> cut, sep |-> sep]

\* An object in a code fence or not, with prose before and after.
Wrapped(doc, fence, pre, post) ==
    Completion("wrapped", pre \o FenceOpen(fence) \o DocText(doc) \o FenceClose(fence) \o post,
               doc, fence, pre, post, 0, <<>>)

\* Whether the first n characters of text end inside a string literal (the
\* objects of the model hold no escaped quote).
InsideString(text, n) == Cardinality({i \in 1..n : text[i] = "\""}) % 2 = 1

\* The lengths at which a cut of the object falls inside a string literal.
Cuts(doc) == {n \in 1..(Len(DocText(doc)) - 1) : InsideString(DocText(doc), n)}

\* An object cut off after n characters.
Truncated(doc, n) ==
    Completion("truncated", SubSeq(DocText(doc), 1, n), doc, "none", <<>>, <<>>, n, <<>>)

\* The members of doc whose text ends within the first n characters.
CompleteBefore(doc, n) ==
    {i \in 1..Len(doc) : Len(DocText(SubSeq(doc, 1, i))) - 1 <= n}

\* An object with sep between its tokens and a comma after its last member.
CommaObject(doc, sep) ==
    Completion("comma",
               <<"{">> \o sep
               \o JoinWith([i \in 1..Len(doc) |-> Quoted(doc[i].key) \o <<":">> \o doc[i].text],
                           <<",">> \o sep)
               \o <<",">> \o sep \o <<"}">>,
               doc, "none", <<>>, <<>>, 0, sep)

\* An object whose array has a comma after its last element.
CommaArray(sep) ==
    Completion("comma",
               <<"{">> \o Quoted(<<"a">>) \o <<":", "[">> \o sep \o Quoted(<<"b">>) \o <<",">>
               \o sep \o <<"]", "}">>,
               <<Member(<<"a">>, ArrayText(<<Quoted(<<"b">>)>>), Array(<<String(<<"b">>)>>))>>,
               "none", <<>>, <<>>, 0, sep)

Separators == {<<>>, <<" ">>, <<"\n">>}

\* A string that holds a comma before a closing brace or bracket.
DocCommaBrace == <<StringMember(<<"a">>, <<"b", ",", "}">>)>>

DocCommaBracket == <<StringMember(<<"a">>, <<",", " ", "]">>)>>

\* Such an object with a comma after its last member.
CommaInString(doc, sep) ==
    Completion("commaInString",
               <<"{">> \o Quoted(doc[1].key) \o <<":">> \o doc[1].text \o <<",">> \o sep \o <<"}">>,
               doc, "none", <<>>, <<>>, 0, sep)

\* A text that is no object, or an object of the conversion.
Plain(text) == Completion("plain", text, <<>>, "none", <<>>, <<>>, 0, <<>>)

Completions ==
    { Wrapped(doc, fence, pre, post) :
        doc \in WrappedDocs, fence \in Fences, pre \in Prose(ProseChars, MaxPre),
        post \in Prose(TailChars, MaxPost) }
    \cup UNION { { Truncated(doc, n) : n \in Cuts(doc) } : doc \in {DocTwo, DocNestedTwo} }
    \cup { CommaObject(doc, sep) : doc \in {DocFlat, DocTwo}, sep \in Separators }
    \cup { CommaArray(sep) : sep \in Separators }
    \cup { CommaInString(doc, sep) : doc \in {DocCommaBrace, DocCommaBracket}, sep \in Separators }
    \cup { Plain(text) : text \in ConvertCompletions \cup {<<" ">>, <<"{">>} }

\* -------------------------------------------------- the normalizer at work

InitNorm ==
    /\ rules = <<>>
    /\ history = <<>>
    /\ now = 0
    /\ last = NoRequest
    /\ response \in {c \in Completions : c.text # <<>>}
    /\ ui = NoUi
    /\ call = NoCall

\* What an operation made of the completion: one call on each completion.
Answer(op, res) ==
    /\ last = NoRequest
    /\ last' = [op |-> op, status |-> 0, res |-> res]
    /\ UNCHANGED <<rules, history, now, response, ui, call>>

ParseExtract == Answer("parseExtractResponse", parseExtractResponse(response.text, now))

ParseMerge == Answer("parseMergeResponse", parseMergeResponse(response.text))

ParseConvert == Answer("parseConvertResponse", parseConvertResponse(response.text))

\* The service calls with a provider that answers with the completion.
ExtractStyles ==
    Answer("extractStyles", extractStyles("ok", response.text, String(<<"#">>), Undefined, now))

ConvertStyles ==
    Answer("convertStyles", convertStyles("ok", response.text, String(<<"#">>), <<>>, Undefined))

NextNorm == ParseExtract \/ ParseMerge \/ ParseConvert \/ ExtractStyles \/ ConvertStyles

SpecNorm == InitNorm /\ [][NextNorm]_vars

\* ------------------------------------------------- the Response Normalizer's
\* ------------------------------------------------- properties (SpecNorm)

Keys(o) == {o.m[i].key : i \in 1..Len(o.m)}

\* A rule as the extraction's parse returns it: every member of the rule given
\* with its value, and nothing added but id, createdAt and updatedAt.
RuleKept(got, given) ==
    /\ got.k = "object"
    /\ \A j \in 1..Len(given.m) : Get(got, given.m[j].key) = given.m[j].val
    /\ Keys(got) \subseteq Keys(given) \cup {kId, kCreatedAt, kUpdatedAt}

RulesKept(got, given) ==
    /\ got.k = "array"
    /\ Len(got.m) = Len(given.m)
    /\ \A i \in 1..Len(given.m) : RuleKept(got.m[i].val, given.m[i].val)

\* The embedded object as the extraction's parse returns it.
EqualButStamps(result, embedded) ==
    /\ result.k = "object"
    /\ Keys(result) = Keys(embedded)
    /\ \A i \in 1..Len(embedded.m) :
        IF embedded.m[i].key = kRules /\ embedded.m[i].val.k = "array"
        THEN RulesKept(Get(result, kRules), embedded.m[i].val)
        ELSE Get(result, embedded.m[i].key) = embedded.m[i].val

\* Prose that holds no brace, no quote and no backslash.
CleanProse(text) == \A i \in 1..Len(text) : text[i] \notin {"{", "}", "\"", "\\"}

C2_TruncatedStringClosed ==
    (response.kind = "truncated" /\ last.op = "parseExtractResponse")
        => /\ last.res.ok
           /\ \A i \in CompleteBefore(response.doc, response.cut) :
                Get(last.res.v, response.doc[i].key) = response.doc[i].val

\* C3: for an object with a comma after its last member or element, whatever
\* white space or line breaks separate its tokens, the parse returns the
\* object without the comma.
C3_TrailingCommaRemoved ==
    (response.kind = "comma" /\ last.op \in {"parseExtractResponse", "parseMergeResponse"})
        => last.res = Return(DocValue(response.doc))

\* The completion parses to an object whose rules are missing or an empty array.
ZeroRules(text, t) ==
    LET parsed == parseExtractResponse(text, t)
    IN  parsed.ok /\ parsed.v.k = "object" /\ Get(parsed.v, kRules) \in {Undefined, Array(<<>>)}

\* C4: when the completion parses to an object whose rules are missing or an
\* empty array, extractStyles returns the failure "no rules extracted", and no
\* successful result of extractStyles carries zero rules.
C4_EmptyExtractionFails ==
    last.op = "extractStyles"
        => /\ ZeroRules(response.text, now) => last.res = Failure(MsgNoRules)
           /\ Get(last.res, kSuccess) = True
                => Get(last.res, kRules) \notin {Undefined, Array(<<>>)}

\* C4's case: an empty rules array in a json fence made extractStyles fail.
C4_Witness ==
    /\ last.op = "extractStyles"
    /\ response.doc = DocEmptyRules
    /\ response.fence = "json"
    /\ ZeroRules(response.text, now)
    /\ last.res = Failure(MsgNoRules)

\* No object can be parsed from the completion by the conversion's parse.
NoObject(text) ==
    \/ greedyCandidate(text) = <<>>
    \/ ~JSONparse(fixJsonString(greedyCandidate(text))).ok

\* C5: for every non-empty completion from which no object can be parsed,
\* convertStyles returns success = true, convertedContent = "" and
\* appliedRules = [].
C5_ConvertSoftFailure ==
    (last.op = "convertStyles" /\ response.text # <<>> /\ NoObject(response.text))
        => /\ Get(last.res, kSuccess) = True
           /\ Get(last.res, kConvertedContent) = String(<<>>)
           /\ Get(last.res, kAppliedRules) = Array(<<>>)

\* C5's case: a completion with braces that is no object; convertStyles
\* answered with a success that carries no content.
C5_Witness ==
    /\ last.op = "convertStyles"
    /\ response.kind = "truncated"
    /\ indexOf(response.text, "}") # 0
    /\ NoObject(response.text)
    /\ Get(last.res, kSuccess) = True
    /\ Get(last.res, kConvertedContent) = String(<<>>)

\* Prose that holds no opening brace and no quote: the first opening brace
\* of the completion is the object's, and it lies outside any string literal.
NoBraceOpened(text) == \A i \in 1..Len(text) : text[i] \notin {"{", "\""}

\* C22: the candidate of parseExtractResponse and parseMergeResponse is the
\* first balanced span: it starts at the first opening brace outside a string
\* literal and ends at the brace that matches it, also when a closing brace or
\* a backslash comes before it.
C22_FirstBalancedSpan ==
    (/\ response.kind = "wrapped"
     /\ NoBraceOpened(response.pre)
     /\ last.op \in {"parseExtractResponse", "parseMergeResponse"})
        => scanCandidate(response.text) = DocText(response.doc)

\* C23: for every completion parseConvertResponse selects the candidate that
\* parseExtractResponse and parseMergeResponse select, and fails on the same
\* completions as parseMergeResponse.
C23_SameCandidate ==
    last.op = "parseConvertResponse"
        => /\ greedyCandidate(response.text) = scanCandidate(response.text)
           /\ (last.res = Return(ConvertSoftResult)) = ~parseMergeResponse(response.text).ok

\* C24: when the candidate is an object with a comma after its last member
\* or element and the repaired text parses, the strings of the object are
\* returned as they were written.
C24_StringsUnaltered ==
    (/\ response.kind \in {"comma", "commaInString"}
     /\ last.op \in {"parseExtractResponse", "parseMergeResponse", "parseConvertResponse"}
     /\ last.res.ok
     /\ last.res.v # ConvertSoftResult)
        => last.res.v = DocValue(response.doc)

\* ------------------------------------------ the rule store's properties (Spec)

\* The rules of a type in a rules file, in the file's order.
OfType(file, type) == SelectSeq(file, LAMBDA rule : Get(rule, kType) = type)

Ids(file) == {Get(file[i], kId) : i \in 1..Len(file)}

\* The merge call fails: no provider, a provider error, an empty completion
\* or one from which no mergedRule is parsed.
MergeFails(provider, completion) ==
    \/ provider # "ok"
    \/ completion = <<>>
    \/ ~parseMergeResponse(completion).ok
    \/ ~Truthy(Get(parseMergeResponse(completion).v, kMergedRule))

\* The merge call returns a mergedRule that lacks name, description, pattern
\* or examples.
MergeUnusable(provider, completion) ==
    /\ ~MergeFails(provider, completion)
    /\ \E key \in {kName, kDescription, kPattern, kExamples} :
        Get(Get(parseMergeResponse(completion).v, kMergedRule), key) = Undefined

\* The outcome of a fallback: the rules of the file as they were, one record
\* more with an id of its own, and a reply with success and merged = false.
FellBack(file, reply) ==
    /\ Len(reply.rules) = Len(file) + 1
    /\ SubSeq(reply.rules, 1, Len(file)) = file
    /\ Get(reply.rules[Len(file) + 1], kId) \notin Ids(file)
    /\ Get(reply.res, kSuccess) = True
    /\ Get(reply.res, kMerged) = False

\* C6: when POST /rules finds rules of the type and the merge fails or
\* returns a mergedRule lacking name, description, pattern or examples, the
\* rules of the type stay as they were, the proposed rule is inserted as a new
\* record with an id of its own, and the reply has success and merged = false.
C6_MergeFallback ==
    \A body \in RuleBodies, provider \in Providers :
        \A completion \in Answers(provider, MergeCompletions) :
            (/\ postRules(rules, history, body, provider, completion, now).status = 200
             /\ OfType(rules, Get(body, kType)) # <<>>
             /\ MergeFails(provider, completion) \/ MergeUnusable(provider, completion))
                => FellBack(rules, postRules(rules, history, body, provider, completion, now))

\* The rule of a file created first.
Earliest(same) ==
    CHOOSE i \in 1..Len(same) :
        \A j \in 1..Len(same) :
            getTime(Get(same[i], kCreatedAt)) <= getTime(Get(same[j], kCreatedAt))

\* The outcome of a merge: one rule of the type is left, it is the one that
\* was created first, and the ids of the others are gone.
MergedIntoEarliest(same, type, reply) ==
    /\ Len(OfType(reply.rules, type)) = 1
    /\ Get(OfType(reply.rules, type)[1], kId) = Get(same[Earliest(same)], kId)
    /\ Get(OfType(reply.rules, type)[1], kCreatedAt) = Get(same[Earliest(same)], kCreatedAt)
    /\ \A i \in 1..Len(same) :
        Get(same[i], kId) # Get(same[Earliest(same)], kId)
            => Get(same[i], kId) \notin Ids(reply.rules)

\* C7: when POST /rules merges into n >= 1 rules of the type, the rule
\* created first is the one updated, the other n - 1 are deleted and one rule
\* of the type remains.
C7_MergeKeepsEarliest ==
    \A body \in RuleBodies, provider \in Providers :
        \A completion \in Answers(provider, MergeCompletions) :
            (/\ postRules(rules, history, body, provider, completion, now).status = 200
             /\ Get(postRules(rules, history, body, provider, completion, now).res, kMerged) = True)
                => MergedIntoEarliest(OfType(rules, Get(body, kType)), Get(body, kType),
                                      postRules(rules, history, body, provider, completion, now))

\* The outcome for a type with one rule: one rule of the type with the id and
\* the creation time it had, and another updatedAt.
SameRuleUpdated(before, type, reply) ==
    /\ Len(OfType(reply.rules, type)) = 1
    /\ Get(OfType(reply.rules, type)[1], kId) = Get(before, kId)
    /\ Get(OfType(reply.rules, type)[1], kCreatedAt) = Get(before, kCreatedAt)
    /\ Get(OfType(reply.rules, type)[1], kUpdatedAt) # Get(before, kUpdatedAt)

\* C8, in the case that favours it (the merge succeeded, and the request is
\* served at another clock value than the one the rule was last written at):
\* when the store holds one rule of the type, POST /rules leaves one rule of
\* the type, with the id and createdAt it had and a different updatedAt.
C8_SingleRuleKept ==
    \A body \in RuleBodies, provider \in Providers :
        \A completion \in Answers(provider, MergeCompletions) :
            (/\ postRules(rules, history, body, provider, completion, now).status = 200
             /\ Get(postRules(rules, history, body, provider, completion, now).res, kMerged) = True
             /\ Len(OfType(rules, Get(body, kType))) = 1
             /\ Get(OfType(rules, Get(body, kType))[1], kUpdatedAt) # String(toISOString(now)))
                => SameRuleUpdated(OfType(rules, Get(body, kType))[1], Get(body, kType),
                                   postRules(rules, history, body, provider, completion, now))

\* C9: from the empty store, after any sequence of extractions, creations,
\* updates and deletions, the store holds at most one rule of each type.
C9_OneRulePerType ==
    \A i, j \in 1..Len(rules) : Get(rules[i], kType) = Get(rules[j], kType) => i = j

\* The type filter of an extraction request: styleTypes, or extractTypes in
\* the body the client sends.
Filter(body) == OrElse(Get(body, kStyleTypes), Get(body, kExtractTypes))

\* Every rule the extraction returned and every rule it saved has a type of
\* the filter.
Filtered(filter, file, reply) ==
    /\ \A i \in 1..Len(Get(reply.res, kRules).m) :
        \E f \in 1..Len(filter.m) :
            Get(Get(reply.res, kRules).m[i].val, kType) = filter.m[f].val
    /\ \A i \in (Len(file) + 1)..Len(reply.rules) :
        \E f \in 1..Len(filter.m) : Get(reply.rules[i], kType) = filter.m[f].val

\* C10: when an extraction request carries a non-empty type filter, also the
\* one the client sends, every rule returned and saved has a type of the
\* filter.
C10_FilterApplied ==
    \A body \in ExtractBodies, provider \in Providers :
        \A completion \in Answers(provider, ExtractCompletions) :
            (/\ postExtract(rules, history, body, provider, completion, now).status = 200
             /\ Filter(body).k = "array"
             /\ Filter(body).m # <<>>)
                => Filtered(Filter(body), rules,
                            postExtract(rules, history, body, provider, completion, now))

\* The sets of m positions of a file of n records.
Kept(n, m) == {S \in SUBSET (1..n) : Cardinality(S) = m}

\* The k-th position of S, in the file's order.
Nth(S, k) == CHOOSE x \in S : Cardinality({y \in S : y < x}) = k - 1

\* A rule after an operation at clock value t: the id and createdAt it had,
\* and either every field as it was or updatedAt set to t.
StaysAs(before, after, t) ==
    /\ Get(after, kId) = Get(before, kId)
    /\ Get(after, kCreatedAt) = Get(before, kCreatedAt)
    /\ after = before \/ Get(after, kUpdatedAt) = String(toISOString(t))

\* C15: every operation of the rules API (an extraction, a creation with or
\* without a merge, an update, a deletion) leaves each rule that stays in the
\* store, in the file's order, with the id and the createdAt it had, and a
\* rule it changes gets the time of the operation as its updatedAt. (No
\* operation both adds and removes rules: the rules that stay are all of them
\* when the file does not shrink, and as many as the file holds when it does.)
C15_IdentityKept ==
    [][\E S \in Kept(Len(rules), IF Len(rules') < Len(rules) THEN Len(rules') ELSE Len(rules)) :
          \A k \in 1..Cardinality(S) : StaysAs(rules[Nth(S, k)], rules'[k], now)]_vars

\* C15's case: a creation was merged into a rule created at an earlier clock
\* value, which has the time of the merge as its updatedAt.
C15_Witness ==
    /\ last.op = "createRule"
    /\ Get(last.res, kMerged) = True
    /\ now > 0
    /\ \E i \in 1..Len(rules) :
        /\ Get(rules[i], kId) = Get(Get(last.res, kRule), kId)
        /\ Get(rules[i], kCreatedAt) = String(toISOString(0))
        /\ Get(rules[i], kUpdatedAt) = String(toISOString(now))

\* C16: no two rules of the store share an id, and no rule an extraction
\* returned carries the id the completion wrote.
C16_FreshUniqueIds ==
    /\ \A i, j \in 1..Len(rules) : Get(rules[i], kId) = Get(rules[j], kId) => i = j
    /\ (last.op = "extract" /\ Get(last.res, kRules).k = "array")
        => \A i \in 1..Len(Get(last.res, kRules).m) :
            Get(Get(last.res, kRules).m[i].val, kId) # String(<<"x">>)

\* The rule a body of POST /rules proposes.
Proposed(body) ==
    NewRuleData(Get(body, kType), Get(body, kName), Get(body, kPattern),
                Get(body, kDescription), Get(body, kExamples))

\* The body of a rule.
BodyOf(rule) ==
    <<Get(rule, kName), Get(rule, kDescription), Get(rule, kPattern), Get(rule, kExamples)>>

\* The rule of the type is there with the body it had.
BodyKept(before, type, reply) ==
    /\ OfType(reply.rules, type) # <<>>
    /\ BodyOf(OfType(reply.rules, type)[1]) = BodyOf(before)

\* C19: when the store holds one rule of the type and POST /rules proposes a
\* rule with the same name, description, pattern and examples, the stored
\* rule has the same body after the request.
C19_MergeIdempotent ==
    \A body \in RuleBodies, provider \in Providers :
        \A completion \in Answers(provider, MergeCompletions) :
            (/\ postRules(rules, history, body, provider, completion, now).status = 200
             /\ Len(OfType(rules, Get(body, kType))) = 1
             /\ BodyOf(OfType(rules, Get(body, kType))[1]) = BodyOf(Proposed(body)))
                => BodyKept(OfType(rules, Get(body, kType))[1], Get(body, kType),
                            postRules(rules, history, body, provider, completion, now))

\* The rule the reply reports and the stored rules with its id have the name
\* and the description of the proposed rule.
NameTaken(proposed, reply) ==
    /\ Get(Get(reply.res, kRule), kName) = Get(proposed, kName)
    /\ Get(Get(reply.res, kRule), kDescription) = Get(proposed, kDescription)
    /\ \A i \in 1..Len(reply.rules) :
        (/\ Get(reply.rules[i], kId) = Get(Get(reply.res, kRule), kId)
         /\ Get(reply.rules[i], kType) = Get(proposed, kType))
            => /\ Get(reply.rules[i], kName) = Get(proposed, kName)
               /\ Get(reply.rules[i], kDescription) = Get(proposed, kDescription)

\* C20: after a merge that succeeded, the name and the description written
\* onto the target rule are those of the proposed rule, whatever the
\* completion holds.
C20_NewNameTakesPrecedence ==
    \A body \in RuleBodies, provider \in Providers :
        \A completion \in Answers(provider, MergeCompletions) :
            (/\ postRules(rules, history, body, provider, completion, now).status = 200
             /\ Get(postRules(rules, history, body, provider, completion, now).res, kMerged) = True)
                => NameTaken(Proposed(body),
                             postRules(rules, history, body, provider, completion, now))

\* ------------------------------------------------------- the Extract page

maxRetries == 3

MsgHttpError == String(<<"[HTTP error]">>)
MsgFetchFailed == String(<<"[fetch failed]">>)
MsgExtractFailed == String(<<"[extraction failed]">>)
MsgExtracted == String(<<"[rules extracted]">>)
MsgRetriesFailed == <<"[extraction failed after the retries]">>

\* No response on its way to the page.
NoInbox == [status |-> 0, res |-> Undefined, kind |-> "none"]

\* The page as it is mounted: the state of useState, the position of
\* handleExtract (pc), the closure's content, the response on its way to the
\* page and, for the extraction started last, the events (a request, the kind
\* of each answer) and the delays of the timers it set.
UiMounted ==
    [pc |-> "idle", inputContent |-> <<>>, content |-> <<>>, currentRetry |-> 0,
     inbox |-> NoInbox,
     isLoading |-> FALSE, isRetrying |-> FALSE, retryCount |-> 0,
     error |-> String(<<>>), success |-> String(<<>>), extractedRules |-> Array(<<>>),
     log |-> <<>>, delays |-> <<>>]

\* The texts typed into the page.
Contents == {<<" ">>, <<"#">>}

\* The types ticked on the page.
UiExtractTypes == Array(<<String(TypeH)>>)

\* handleExtract up to the request (lines 35-52).
handleExtract(u, currentRetry) ==
    IF trim(u.content) = <<>> THEN u
    ELSE IF currentRetry = 0
    THEN [u EXCEPT !.isLoading = TRUE, !.error = String(<<>>), !.success = String(<<>>),
                   !.retryCount = 0, !.isRetrying = FALSE,
                   !.pc = "awaiting", !.currentRetry = 0, !.log = Append(@, "request")]
    ELSE [u EXCEPT !.isRetrying = TRUE, !.retryCount = currentRetry,
                   !.pc = "awaiting", !.currentRetry = currentRetry,
                   !.log = Append(@, "request")]

\* The branch of a successful response, were isRetrying left as it is.
ExtractedStillRetrying(u, res, kind) ==
    [u EXCEPT !.extractedRules = Get(res, kRules), !.success = MsgExtracted,
              !.isLoading = FALSE, !.retryCount = 0,
              !.pc = "idle", !.log = Append(@, kind)]

\* The branch of a successful response (lines 55-59).
Extracted(u, res, kind) ==
    [u EXCEPT !.extractedRules = Get(res, kRules), !.success = MsgExtracted,
              !.isLoading = FALSE, !.isRetrying = FALSE, !.retryCount = 0,
              !.pc = "idle", !.log = Append(@, kind)]

\* The catch block, were one more retry allowed.
CaughtOnceMore(u, message, kind) ==
    IF u.currentRetry < maxRetries + 1
    THEN [u EXCEPT !.pc = "waiting", !.delays = Append(@, 1000 * (u.currentRetry + 1)),
                   !.log = Append(@, kind)]
    ELSE [u EXCEPT !.error = String(MsgRetriesFailed \o message.s),
                   !.isLoading = FALSE, !.isRetrying = FALSE, !.retryCount = 0,
                   !.pc = "idle", !.log = Append(@, kind)]

\* The catch block (lines 63-82): a timer for the next attempt, or the error.
Caught(u, message, kind) ==
    IF u.currentRetry < maxRetries
    THEN [u EXCEPT !.pc = "waiting", !.delays = Append(@, 1000 * (u.currentRetry + 1)),
                   !.log = Append(@, kind)]
    ELSE [u EXCEPT !.error = String(MsgRetriesFailed \o message.s),
                   !.isLoading = FALSE, !.isRetrying = FALSE, !.retryCount = 0,
                   !.pc = "idle", !.log = Append(@, kind)]

\* handleExtract from the response on: request of api.ts throws on a status
\* that is not ok, handleExtract on a body without success or rules.
Resumed(u, status, res, kind) ==
    IF status # 200 THEN Caught(u, MsgHttpError, kind)
    ELSE IF Truthy(Get(res, kSuccess)) /\ Truthy(Get(res, kRules)) THEN Extracted(u, res, kind)
    ELSE Caught(u, OrElse(Get(res, kMessage), MsgExtractFailed), kind)

\* The kind of an answer: no provider configured, a success, another failure.
AnswerKind(provider, reply) ==
    IF provider = "none" /\ reply.status = 200 THEN "noProvider"
    ELSE IF reply.status = 200 /\ Truthy(Get(reply.res, kSuccess)) /\ Truthy(Get(reply.res, kRules))
    THEN "success"
    ELSE "failure"

InitUI ==
    /\ rules = <<>>
    /\ history = <<>>
    /\ now = 0
    /\ last = NoRequest
    /\ response = NoResponse
    /\ ui = UiMounted
    /\ call = NoCall

\* The user types a text.
TypeContent ==
    /\ \E text \in Contents : ui' = [ui EXCEPT !.inputContent = text]
    /\ UNCHANGED <<rules, history, now, last, response, call>>

\* The user presses the button, which is enabled when nothing is loading and
\* the text is not blank (line 191): a new handleExtract() closes over the
\* text.
Click ==
    /\ ~ui.isLoading
    /\ trim(ui.inputContent) # <<>>
    /\ ui' = handleExtract([ui EXCEPT !.content = ui.inputContent, !.log = <<>>, !.delays = <<>>], 0)
    /\ UNCHANGED <<rules, history, now, last, response, call>>

\* The server serves the request and sends the response.
Responded(reply, provider) ==
    /\ Len(reply.rules) <= MaxRules
    /\ rules' = reply.rules
    /\ history' = reply.history
    /\ last' = [op |-> "extract", status |-> reply.status, res |-> reply.res]
    /\ ui' = [ui EXCEPT !.pc = "answered",
                        !.inbox = [status |-> reply.status, res |-> reply.res,
                                   kind |-> AnswerKind(provider, reply)]]
    /\ UNCHANGED <<now, response, call>>

Respond ==
    /\ ui.pc = "awaiting"
    /\ \E provider \in Providers :
        \E completion \in Answers(provider, ExtractCompletions) :
            Responded(postExtract(rules, history,
                                  clientExtractBody(String(ui.content), UiExtractTypes),
                                  provider, completion, now),
                      provider)

\* The await of handleExtract resumes with the response.
Resume ==
    /\ ui.pc = "answered"
    /\ ui' = Resumed([ui EXCEPT !.inbox = NoInbox], ui.inbox.status, ui.inbox.res, ui.inbox.kind)
    /\ UNCHANGED <<rules, history, now, last, response, call>>

\* fetch rejects: the request does not reach the server.
Unreachable ==
    /\ ui.pc = "awaiting"
    /\ ui' = Caught(ui, MsgFetchFailed, "failure")
    /\ UNCHANGED <<rules, history, now, last, response, call>>

\* The timer of a retry fires.
Timeout ==
    /\ ui.pc = "waiting"
    /\ ui' = handleExtract(ui, ui.currentRetry + 1)
    /\ UNCHANGED <<rules, history, now, last, response, call>>

NextUI == Tick \/ TypeContent \/ Click \/ Respond \/ Resume \/ Unreachable \/ Timeout

SpecUI == InitUI /\ [][NextUI]_vars

\* Every request returns or fails (a request that gets no response ends with
\* fetch rejecting), and every timer fires.
SpecUIFair == SpecUI /\ WF_vars(Unreachable) /\ WF_vars(Resume) /\ WF_vars(Timeout)

\* ------------------------------------- the Extract page's properties (SpecUI)

\* The requests and the answers of the extraction started last.
Requests(log) == Cardinality({i \in 1..Len(log) : log[i] = "request"})

Failures(log) == Cardinality({i \in 1..Len(log) : log[i] \in {"noProvider", "failure"}})

\* The extraction started last has ended.
Terminal == ui.pc = "idle" /\ ui.log # <<>>

\* C11: when no provider is configured, an extraction fails at once: one
\* request is issued, no timer is set, and the error is shown.
C11_NoProviderNotRetried ==
    (\E i \in 1..Len(ui.log) : ui.log[i] = "noProvider")
        => /\ Requests(ui.log) = 1
           /\ ui.delays = <<>>
           /\ ui.pc = "idle"
           /\ ui.error # String(<<>>)

\* C12: one extraction issues at most 4 requests, the k-th retry is set
\* k x 1000 ms after the k-th failed attempt (a timer per failed attempt, up
\* to 3), and no request follows a successful attempt.
C12_BoundedLinearRetries ==
    /\ Requests(ui.log) <= 4
    /\ Len(ui.delays) <= 3
    /\ \A k \in 1..Len(ui.delays) : ui.delays[k] = k * 1000
    /\ Len(ui.delays) = IF Failures(ui.log) <= 3 THEN Failures(ui.log) ELSE 3
    /\ Requests(ui.log) <= Len(ui.delays) + 1
    /\ \A i \in 1..Len(ui.log) : ui.log[i] = "success" => i = Len(ui.log) /\ ui.pc = "idle"

\* C12's case: four attempts failed; the timers were set to 1000, 2000 and
\* 3000 ms and the error is shown.
C12_Witness ==
    /\ Terminal
    /\ Requests(ui.log) = 4
    /\ Failures(ui.log) = 4
    /\ ui.delays = <<1000, 2000, 3000>>
    /\ ui.error # String(<<>>)

\* The flags of a terminal state.
Settled ==
    /\ ~ui.isLoading
    /\ ~ui.isRetrying
    /\ ui.retryCount = 0
    /\ \/ ui.log[Len(ui.log)] = "success" /\ ui.success = MsgExtracted
       \/ Failures(ui.log) = 4 /\ ui.error # String(<<>>)

\* C13: when every request returns or fails and every timer fires, an
\* extraction that was started reaches a terminal state, a success or the
\* error after the 3rd retry failed, and in a terminal state isLoading and
\* isRetrying are false and retryCount is 0.
C13_ExtractionTerminates ==
    /\ [](Terminal => Settled)
    /\ (ui.pc \in {"awaiting", "answered", "waiting"}) ~> Terminal

\* C13's case: the second retry succeeded and the flags were reset.
C13_Witness ==
    /\ Terminal
    /\ Requests(ui.log) = 3
    /\ ui.log[Len(ui.log)] = "success"
    /\ ~ui.isLoading /\ ~ui.isRetrying /\ ui.retryCount = 0

\* ------------------------------------------------- a request, step by step

\* clearHistory: the file after the call.
clearHistory(file) == saved(<<>>)

\* deleteHistoryRecord: the file after the call and whether a record was
\* removed.
deleteHistoryRecord(file, id) ==
    LET filteredHistory == SelectSeq(getHistory(file), LAMBDA record : Get(record, kId) # id)
    IN  IF Len(filteredHistory) = Len(file) THEN [file |-> file, result |-> FALSE]
        ELSE [file |-> saved(filteredHistory), result |-> TRUE]

MsgHistoryMissing == String(<<"[the history record does not exist]">>)
MsgHistoryDeleted == String(<<"[history record deleted]">>)
MsgHistoryCleared == String(<<"[history cleared]">>)

HistoryDeleted(rulesFile, historyFile, deleted) ==
    IF ~deleted.result
    THEN Reply(rulesFile, historyFile, 404, Refusal(MsgHistoryMissing))
    ELSE Reply(rulesFile, deleted.file, 200,
               Object(<<[key |-> kSuccess, val |-> True],
                        [key |-> kMessage, val |-> MsgHistoryDeleted]>>))

\* router.delete('/history/:id')
deleteHistoryRoute(rulesFile, historyFile, id) ==
    HistoryDeleted(rulesFile, historyFile, deleteHistoryRecord(historyFile, id))

\* router.delete('/history')
clearHistoryRoute(rulesFile, historyFile) ==
    Reply(rulesFile, clearHistory(historyFile), 200,
          Object(<<[key |-> kSuccess, val |-> True],
                   [key |-> kMessage, val |-> MsgHistoryCleared]>>))

\* The status POST /convert refuses a request with before it calls the
\* service (lines 54-76), 0 when it calls it.
ConvertRefused(rulesFile, content, ruleIds) ==
    IF ~Truthy(content) \/ content.k # "string" THEN 400
    ELSE IF ~Truthy(ruleIds) \/ ruleIds.k # "array" \/ Len(ruleIds.m) = 0 THEN 400
    ELSE IF Len(getRulesByIds(rulesFile, Elems(ruleIds))) = 0 THEN 404
    ELSE 0

\* The route reaches convertStyles (line 80) or mergeRules (line 182).
CallsService(rulesFile, op, body) ==
    IF op = "convert"
    THEN ConvertRefused(rulesFile, Get(body, kContent), Get(body, kRuleIds)) = 0
    ELSE /\ RuleRefused(Get(body, kType), Get(body, kPattern), Get(body, kDescription),
                        Get(body, kName)) = 0
         /\ \E i \in 1..Len(rulesFile) : Get(rulesFile[i], kType) = Get(body, kType)

\* The prompt the service builds for the request.
CallPrompt(rulesFile, op, body, t) ==
    IF op = "convert"
    THEN buildConvertPrompt(Get(body, kContent),
                            getRulesByIds(rulesFile, Elems(Get(body, kRuleIds))),
                            Get(body, kTargetStyle))
    ELSE buildMergePrompt(Stamped(TempId(t),
                                  NewRuleData(Get(body, kType), Get(body, kName),
                                              Get(body, kPattern), Get(body, kDescription),
                                              Get(body, kExamples)), t),
                          SelectSeq(rulesFile, LAMBDA rule : Get(rule, kType) = Get(body, kType)))

CallCompletions(op) == IF op = "convert" THEN ConvertCompletions ELSE MergeCompletions

\* Request bodies of POST /convert, one without ruleIds among them, and of
\* POST /rules.
CallBodies(op) ==
    IF op = "convert"
    THEN ConvertBodies \cup {Object(<<[key |-> kContent, val |-> String(<<"#">>)]>>)}
    ELSE RuleBodies

\* The handler of the request.
Handler(c) ==
    IF c.op = "convert" THEN postConvert(rules, history, c.body, c.provider, c.completion, now)
    ELSE postRules(rules, history, c.body, c.provider, c.completion, now)

\* The handler sends its response: the files are written and the steps of
\* the request are kept.
Ended(c, reply) ==
    /\ rules' = reply.rules
    /\ history' = reply.history
    /\ last' = [op |-> c.op, status |-> reply.status, res |-> reply.res]
    /\ call' = [c EXCEPT !.pc = "done"]
    /\ UNCHANGED <<now, response, ui>>

Finished(c) == Ended(c, Handler(c))

\* The handler goes on inside the service.
Continued(c) ==
    /\ call' = c
    /\ UNCHANGED <<rules, history, now, last, response, ui>>

\* The route validates the request and, with a client, enters the try block
\* of the service; without one the service returns at once.
Received(c) ==
    IF CallsService(rules, c.op, c.body) /\ c.provider # "none" THEN Continued(c)
    ELSE Finished(c)

\* The requests are served one after the other; a request that can add a
\* record is taken while the file has room for it.
Receive ==
    /\ call.pc \in {"none", "done"}
    /\ \E op \in {"convert", "createRule"}, provider \in Providers :
        \E body \in CallBodies(op) :
            /\ op = "convert" => Len(history) < MaxHistory
            /\ op = "createRule" => Len(rules) < MaxRules
            /\ Received([pc |-> "entered", op |-> op, body |-> body, provider |-> provider,
                         completion |-> <<>>, trace |-> <<>>, history |-> history])

\* buildConvertPrompt, buildMergePrompt: a prompt that throws ends in the
\* catch block.
Prompted(c, prompt) ==
    IF prompt.ok THEN Continued([c EXCEPT !.pc = "prompted"]) ELSE Finished(c)

BuildPrompt ==
    /\ call.pc = "entered"
    /\ Prompted([call EXCEPT !.trace = Append(@, "prompt")],
                CallPrompt(rules, call.op, call.body, now))

\* A service that calls again after a call that failed.
CompletedRetried(c) ==
    IF c.provider = "ok" /\ c.completion # <<>> THEN Continued([c EXCEPT !.pc = "completed"])
    ELSE Continued([c EXCEPT !.pc = "prompted"])

\* client.chat.completions.create has returned or thrown: an error and an
\* empty result end in the catch block.
Completed(c) ==
    IF c.provider = "ok" /\ c.completion # <<>> THEN Continued([c EXCEPT !.pc = "completed"])
    ELSE Finished(c)

Complete ==
    /\ call.pc = "prompted"
    /\ \E completion \in Answers(call.provider, CallCompletions(call.op)) :
        Completed([call EXCEPT !.trace = Append(@, "call"), !.completion = completion])

\* parseConvertResponse, parseMergeResponse, and the rest of the handler.
Normalize ==
    /\ call.pc = "completed"
    /\ Finished([call EXCEPT !.trace = Append(@, "normalize")])

\* The ids of the history records and one of no record.
HistoryIds == {Get(history[i], kId) : i \in 1..Len(history)} \cup {String(<<"y">>)}

DeleteHistory ==
    /\ call.pc \in {"none", "done"}
    /\ \E id \in HistoryIds :
        Ended([pc |-> "done", op |-> "deleteHistory", id |-> id, history |-> history],
              deleteHistoryRoute(rules, history, id))

ClearHistory ==
    /\ call.pc \in {"none", "done"}
    /\ Ended([pc |-> "done", op |-> "clearHistory", history |-> history],
             clearHistoryRoute(rules, history))

\* The conversion and rule-create requests, step by step, and the history
\* API.
NextCall ==
    Tick \/ Receive \/ BuildPrompt \/ Complete \/ Normalize \/ DeleteHistory \/ ClearHistory

SpecCall == Init /\ [][NextCall]_vars

\* ------------------------------------- the requests' properties (SpecCall)

\* The steps of a service call, in the order of the code.
Steps == <<"prompt", "call", "normalize">>

\* A conversion or rule-create request, being served or served last.
Serving == call.pc # "none" /\ call.op \in {"convert", "createRule"}

\* C14: a convert or rule-create request makes at most one completion call,
\* after the prompt is built and before the completion is normalized, and a
\* call that failed or a completion that does not parse is followed by no
\* second call: the steps of a request are a prefix of prompt, call,
\* normalize.
C14_OneCallInOrder ==
    Serving => /\ Len(call.trace) <= Len(Steps)
               /\ call.trace = SubSeq(Steps, 1, Len(call.trace))

\* C14's case: a merge whose completion is prose was normalized once; the
\* route fell back to adding the rule.
C14_Witness ==
    /\ Serving
    /\ call.pc = "done"
    /\ call.op = "createRule"
    /\ call.completion = <<"a">>
    /\ call.trace = Steps
    /\ Get(last.res, kMerged) = False

\* The ruleIds of a convert request are missing, empty or name no stored rule.
NoRuleSet(ruleIds) ==
    \/ ~Truthy(ruleIds)
    \/ ruleIds.k # "array"
    \/ Len(ruleIds.m) = 0
    \/ getRulesByIds(rules, Elems(ruleIds)) = <<>>

\* C17: a convert request whose ruleIds are missing or empty, or name no
\* stored rule, is answered with 400 or 404, without a prompt or a completion
\* call, and the history stays as it was.
C17_EmptyRuleSetRejected ==
    (Serving /\ call.pc = "done" /\ call.op = "convert" /\ NoRuleSet(Get(call.body, kRuleIds)))
        => /\ last.status \in {400, 404}
           /\ call.trace = <<>>
           /\ history = call.history

\* C17's case: with a rule stored and a provider that answers, a request
\* that names an unknown id was answered with 404.
C17_Witness ==
    /\ Serving
    /\ call.pc = "done"
    /\ call.op = "convert"
    /\ call.provider = "ok"
    /\ rules # <<>>
    /\ Get(call.body, kRuleIds) = Array(<<String(<<"y">>)>>)
    /\ last.status = 404
    /\ call.trace = <<>>

\* The record is the one the conversion that ends with this step creates.
CreatedNow(record) ==
    /\ call'.pc = "done"
    /\ call'.op = "convert"
    /\ last'.status = 200
    /\ Get(record, kId) = String(<<"c", "o", "n", "v", "_">> \o DateNow(now))
    /\ Get(record, kCreatedAt) = String(toISOString(now))
    /\ Get(record, kOriginalContent) = Get(call'.body, kContent)
    /\ Get(record, kAppliedRuleIds) = Get(call'.body, kRuleIds)

\* C18: every step of the conversion and history API leaves each record of
\* the history as it was or removes it; the one record that can be new is the
\* one the conversion creates, at the head of the history.
C18_HistoryImmutable ==
    [][/\ Len(history') <= Len(history) + 1
       /\ \A i \in 1..Len(history') :
            \/ \E j \in 1..Len(history) : history[j] = history'[i]
            \/ i = 1 /\ Len(history') = Len(history) + 1 /\ CreatedNow(history'[1])]_vars

\* C18's case: of two records one was deleted; the other is still there.
C18_Witness ==
    /\ call.pc = "done"
    /\ call.op = "deleteHistory"
    /\ last.status = 200
    /\ Len(call.history) = 2
    /\ Len(history) = 1

\* ------------------------------------ the extraction's properties (Spec)

\* C21: every response of POST /extract, a success and every failure, has the
\* fields success, rules (an array, empty on a failure) and message.
C21_ExtractResponseShape ==
    last.op = "extract"
        => /\ Get(last.res, kSuccess) \in {True, False}
           /\ Get(last.res, kRules).k = "array"
           /\ Get(last.res, kSuccess) = False => Get(last.res, kRules).m = <<>>
           /\ Get(last.res, kMessage) # Undefined

\* The extraction failed: a refusal, or a result without success.
ExtractFailed(answer) == answer.status # 200 \/ Get(answer.res, kSuccess) # True

\* The rules of an extraction's response.
Returned(answer) ==
    IF Get(answer.res, kRules).k = "array" THEN Elems(Get(answer.res, kRules)) ELSE <<>>

\* C29: an extraction that fails leaves the rules file as it was; one that
\* succeeds appends the rules it returns, at least one, after the rules that
\* were there, which it leaves as they were and in their order.
C29_FailedExtractionKeepsStore ==
    [][last'.op = "extract"
        => /\ ExtractFailed(last') => rules' = rules
           /\ rules' # rules
                => /\ ~ExtractFailed(last')
                   /\ Returned(last') # <<>>
                   /\ rules' = rules \o Returned(last')]_vars

\* C29's case: with a rule stored, an extraction ended in "no rules
\* extracted" and the rule is still there.
C29_Witness ==
    /\ last.op = "extract"
    /\ last.status = 200
    /\ Get(last.res, kError) = MsgNoRules
    /\ rules # <<>>

\* The fields POST /rules and PUT /rules/:id write.
BodyKeys == {kType, kName, kPattern, kDescription, kExamples}

\* C27: when POST /rules answers with success and a rule, a rule with the id
\* returned is in the store, with the type, name, pattern, description and
\* examples returned.
C27_ReturnedRuleStored ==
    (last.op = "createRule" /\ Get(last.res, kSuccess) = True)
        => \E i \in 1..Len(rules) :
            /\ Get(rules[i], kId) = Get(Get(last.res, kRule), kId)
            /\ \A key \in BodyKeys : Get(rules[i], key) = Get(Get(last.res, kRule), key)

\* The rule PUT addresses after the request: the fields of the body as the
\* body gives them, updatedAt, and every other field as it was.
PartlyUpdated(before, after, body) ==
    /\ \A key \in BodyKeys :
        Get(after, key) = IF Get(body, key) # Undefined THEN Get(body, key) ELSE Get(before, key)
    /\ \A key \in Keys(before) \ (BodyKeys \cup {kUpdatedAt}) : Get(after, key) = Get(before, key)

\* The outcome of PUT for a file: not found and the file as it was, or the
\* first rule with the id updated and the others as they were.
PutOutcome(file, id, body, answer) ==
    IF FindIndexFrom(file, id, 1) = 0 THEN answer.status = 404 /\ answer.rules = file
    ELSE /\ answer.status = 200
         /\ Len(answer.rules) = Len(file)
         /\ \A i \in 1..Len(file) :
              IF i = FindIndexFrom(file, id, 1) THEN PartlyUpdated(file[i], answer.rules[i], body)
              ELSE answer.rules[i] = file[i]

\* C28: PUT /rules/:id changes the fields its body supplies and updatedAt of
\* the rule addressed, leaves the fields the body omits and every other rule
\* as they were, and answers not-found for an unknown id without a change.
C28_PartialUpdate ==
    \A id \in RequestIds, body \in UpdateBodies :
        PutOutcome(rules, id, body, putRule(rules, history, id, body, now))

\* ------------------------------------------------ the history at its limit

\* The request and the completion of the conversions that fill the history.
FillBody ==
    Object(<<[key |-> kContent, val |-> String(<<"#">>)],
             [key |-> kRuleIds, val |-> Array(<<String(<<"r", "u", "l", "e", "_", "h", "_", "0">>)>>)]>>)

FillCompletion ==
    ObjectText(<< <<kConvertedContent, Quoted(<<"c">>)>>, <<kAppliedRules, ArrayText(<<>>)>> >>)

\* The record such a conversion writes at clock value t.
FillRecord(t) ==
    addHistoryRecord(<<>>, Object(<<[key |-> kOriginalContent, val |-> String(<<"#">>)],
                                    [key |-> kConvertedContent, val |-> String(<<"c">>)],
                                    [key |-> kAppliedRuleIds, val |-> Get(FillBody, kRuleIds)]>>),
                     t)[1]

\* The history file after older conversions at clock value 0 and newer
\* conversions at clock value 1.
Filled(newer, older) == [i \in 1..(newer + older) |-> FillRecord(IF i <= newer THEN 1 ELSE 0)]

\* The sizes the history starts with: empty, one below the limit, full.
FillSizes == {0, HistoryLimit - 1, HistoryLimit}

\* The store after one extraction and the history after conversions enough
\* to fill it or nearly so.
InitHistory ==
    /\ rules = postExtract(<<>>, <<>>, CHOOSE body \in ExtractBodies : Get(body, kStyleTypes) # Undefined,
                           "ok", RulesText(<<RuleText(TypeH)>>), 0).rules
    /\ now \in 0..MaxTime
    /\ \E size \in FillSizes, newer \in 0..HistoryLimit :
        /\ newer <= size
        /\ now = 0 => newer = 0
        /\ history = Filled(newer, size - newer)
    /\ last = NoRequest
    /\ response = NoResponse
    /\ ui = NoUi
    /\ call = NoCall

\* A conversion, served in one step; the histories between the small ones
\* and the nearly full ones are left out.
Record ==
    /\ call.pc \in {"none", "done"}
    /\ Len(history) < MaxHistory \/ Len(history) >= HistoryLimit - 1
    /\ Finished([pc |-> "entered", op |-> "convert", body |-> FillBody, provider |-> "ok",
                 completion |-> FillCompletion, trace |-> Steps, history |-> history])

NextHistory == Tick \/ Record \/ DeleteHistory \/ ClearHistory

SpecHistory == InitHistory /\ [][NextHistory]_vars

\* The records are in the order of their time stamps, the newest first.
NewestFirst(file) ==
    \A i, j \in 1..Len(file) :
        i < j => getTime(Get(file[i], kCreatedAt)) >= getTime(Get(file[j], kCreatedAt))

\* The conversion served last was recorded into a full history.
RecordedIntoFull ==
    /\ call.pc = "done"
    /\ call.op = "convert"
    /\ Get(last.res, kSuccess) = True
    /\ Len(call.history) = HistoryLimit

\* C30: the history holds at most 100 records, the newest first; a
\* conversion recorded into a full history puts its record first, before the
\* records that were there, and drops the last of them, which none of them
\* is older than.
C30_HistoryCapped ==
    /\ Len(history) <= HistoryLimit
    /\ NewestFirst(history)
    /\ RecordedIntoFull
        => /\ Len(history) = HistoryLimit
           /\ Get(history[1], kOriginalContent) = Get(call.body, kContent)
           /\ Tail(history) = SubSeq(call.history, 1, HistoryLimit - 1)
           /\ \A i \in 1..HistoryLimit :
                getTime(Get(call.history[i], kCreatedAt))
                    >= getTime(Get(call.history[HistoryLimit], kCreatedAt))

\* C30's case: a conversion was recorded into a full history of newer and
\* older records; its record is first and an older record was dropped.
C30_Witness ==
    /\ RecordedIntoFull
    /\ Get(call.history[1], kCreatedAt) = String(toISOString(1))
    /\ Get(call.history[HistoryLimit], kCreatedAt) = String(toISOString(0))
    /\ Get(history[1], kCreatedAt) = String(toISOString(1))
    /\ Len(history) = HistoryLimit
    /\ Cardinality({i \in 1..HistoryLimit : Get(history[i], kCreatedAt) = String(toISOString(0))})
        < Cardinality({i \in 1..HistoryLimit :
                          Get(call.history[i], kCreatedAt) = String(toISOString(0))})

\* --------------------------------- overlapping requests to the rule store

\* The requests a server handles at a time.
Slots == {1, 2}

\* The locals of the handler of POST /rules, the place it is at, and its
\* answer.
Request(pc, newRuleData, sameTypeRules, tempNewRule) ==
    [pc |-> pc, step |-> "none", newRuleData |-> newRuleData, sameTypeRules |-> sameTypeRules,
     tempNewRule |-> tempNewRule, finalRule |-> Undefined, i |-> 0, rules |-> <<>>,
     status |-> 0, res |-> Undefined]

\* No request in a slot.
Idle == Request("idle", Undefined, <<>>, Undefined)

\* A request that was answered.
Answered(r, status, res) ==
    [r EXCEPT !.pc = "done", !.step = "none", !.status = status, !.res = res]

\* A request about to call the StorageService operation op: its getRules is
\* the step "read", its saveRules the step "write".
Calling(r, op) == [r EXCEPT !.pc = op, !.step = "read"]

\* POST /rules up to the await of mergeRules: the body checked, the rules of
\* the type read from the file, the temporary rule made.
Arrived(file, body, status, t) ==
    LET type == Get(body, kType)
        newRuleData == NewRuleData(type, Get(body, kName), Get(body, kPattern),
                                   Get(body, kDescription), Get(body, kExamples))
        sameTypeRules == SelectSeq(file, LAMBDA rule : Get(rule, kType) = type)
        r == Request("mergeRules", newRuleData, sameTypeRules, Stamped(TempId(t), newRuleData, t))
    IN  IF status # 0
        THEN Answered(Idle, status,
                      RuleRefusal(type, Get(body, kPattern), Get(body, kDescription), status))
        ELSE IF sameTypeRules # <<>> THEN r
        ELSE Calling(r, "addRules")

\* POST /rules after mergeRules has answered: the merge decision to apply,
\* or the rule to add as it is.
Merged(r, mergeResult, t) ==
    IF Truthy(Get(mergeResult, kSuccess)) /\ Truthy(Get(mergeResult, kData))
    THEN Calling([r EXCEPT !.finalRule = MergedFinal(Get(Get(mergeResult, kData), kMergedRule),
                                                     r.sameTypeRules[1], t),
                           !.i = 2],
                 IF Len(r.sameTypeRules) > 1 THEN "deleteRule" ELSE "updateRule")
    ELSE Calling(r, "addRules")

\* The getRules of a StorageService operation: the rules of the file held
\* in a local; before addRules the handler makes the rule to add.
Reading(r, file, t) ==
    [r EXCEPT !.rules = file,
              !.step = "write",
              !.finalRule = IF r.pc = "addRules" THEN Stamped(NewId(t), r.newRuleData, t) ELSE @]

\* The rules file after a saveRules: the rules handed to it.
writeJsonFile(file, data) == data

\* deleteRule after its getRules: nothing written when no rule has the id;
\* a write that fails is caught by the handler, which adds the new rule.
DeleteWritten(r, file, deleted, fails) ==
    LET next == IF r.i < Len(r.sameTypeRules) THEN Calling([r EXCEPT !.i = r.i + 1], "deleteRule")
                ELSE Calling(r, "updateRule")
    IN  IF ~deleted.result THEN [rules |-> file, request |-> next]
        ELSE IF fails THEN [rules |-> file, request |-> Calling(r, "addRules")]
        ELSE [rules |-> writeJsonFile(file, deleted.file), request |-> next]

\* updateRule after its getRules; the handler does not look at what it
\* returns.
UpdateWritten(r, file, updated, fails) ==
    LET reply == Answered(r, 200, RuleReply(r.finalRule, TRUE, Len(r.sameTypeRules)))
    IN  IF updated.result = Null THEN [rules |-> file, request |-> reply]
        ELSE IF fails THEN [rules |-> file, request |-> Calling(r, "addRules")]
        ELSE [rules |-> writeJsonFile(file, updated.file), request |-> reply]

\* addRules after its getRules; a write that fails is answered with 500.
AddWritten(r, file, fails) ==
    IF fails THEN [rules |-> file, request |-> Answered(r, 500, Refusal(MsgServerError))]
    ELSE [rules |-> writeJsonFile(file, addRules(r.rules, <<r.finalRule>>)),
          request |-> Answered(r, 200, RuleReply(r.finalRule, FALSE, 0))]

\* The rest of a StorageService operation, were its getRules made again
\* under a lock held until the write.
WrittenLocked(r, file, fails, t) ==
    IF r.pc = "deleteRule"
    THEN DeleteWritten(r, file, deleteRule(file, Get(r.sameTypeRules[r.i], kId)), fails)
    ELSE IF r.pc = "updateRule"
    THEN UpdateWritten(r, file,
                       updateRule(file, Get(r.finalRule, kId), UpdateData(r.finalRule), t),
                       fails)
    ELSE AddWritten([r EXCEPT !.rules = file], file, fails)

\* The rest of a StorageService operation after its getRules: the file and
\* the request after it.
Written(r, file, fails, t) ==
    IF r.pc = "deleteRule"
    THEN DeleteWritten(r, file, deleteRule(r.rules, Get(r.sameTypeRules[r.i], kId)), fails)
    ELSE IF r.pc = "updateRule"
    THEN UpdateWritten(r, file,
                       updateRule(r.rules, Get(r.finalRule, kId), UpdateData(r.finalRule), t),
                       fails)
    ELSE AddWritten(r, file, fails)

\* The store after an extraction of one bold rule at each of the clock
\* values 0 to t - 1.
RECURSIVE StoreAfter(_)
StoreAfter(t) ==
    IF t = 0 THEN <<>>
    ELSE postExtract(StoreAfter(t - 1), <<>>,
                     CHOOSE body \in ExtractBodies : Get(body, kStyleTypes) # Undefined,
                     "ok", RulesText(<<RuleText(TypeB)>>), t - 1).rules

\* The store two overlapping requests find: empty, or holding the two bold
\* rules that two extractions have added.
InitStore ==
    /\ \/ rules = <<>> /\ now = 0
       \/ rules = StoreAfter(2) /\ now = 1
    /\ history = <<>>
    /\ last = NoRequest
    /\ response = NoResponse
    /\ ui = NoUi
    /\ call = [pc |-> "overlapping", of |-> [s \in Slots |-> Idle]]

\* What a step of the request in slot s leaves: the file, the request, and
\* the answer when the request ends with the step.
Step(s, file, r) ==
    /\ Len(file) <= MaxRules
    /\ rules' = file
    /\ call' = [call EXCEPT !.of[s] = r]
    /\ last' = IF r.pc = "done" THEN [op |-> "createRule", status |-> r.status, res |-> r.res]
               ELSE last
    /\ UNCHANGED <<history, now, response, ui>>

\* Each slot takes one request.
Arrive ==
    \E s \in Slots, body \in RuleBodies :
        /\ call.of[s].pc = "idle"
        /\ Step(s, rules,
                Arrived(rules, body,
                        RuleRefused(Get(body, kType), Get(body, kPattern),
                                    Get(body, kDescription), Get(body, kName)),
                        now))

Merge ==
    \E s \in Slots, provider \in Providers :
        \E completion \in Answers(provider, MergeCompletions) :
            /\ call.of[s].pc = "mergeRules"
            /\ Step(s, rules,
                    Merged(call.of[s],
                           mergeRules(provider, completion, call.of[s].tempNewRule,
                                      call.of[s].sameTypeRules, now),
                           now))

Read ==
    \E s \in Slots :
        /\ call.of[s].step = "read"
        /\ Step(s, rules, Reading(call.of[s], rules, now))

Write ==
    \E s \in Slots, fails \in BOOLEAN :
        /\ call.of[s].step = "write"
        /\ Step(s, Written(call.of[s], rules, fails, now).rules,
                Written(call.of[s], rules, fails, now).request)

NextStore == Tick \/ Arrive \/ Merge \/ Read \/ Write

SpecStore == InitStore /\ [][NextStore]_vars

\* ------------------------- the overlapping requests' properties (SpecStore)

\* The rules a StorageService operation hands to saveRules, from the rules
\* its getRules returned.
Handed(r, t) ==
    IF r.pc = "deleteRule" THEN deleteRule(r.rules, Get(r.sameTypeRules[r.i], kId)).file
    ELSE IF r.pc = "updateRule"
    THEN updateRule(r.rules, Get(r.finalRule, kId), UpdateData(r.finalRule), t).file
    ELSE addRules(r.rules, <<r.finalRule>>)

\* The request r has a merge decision and the file shows it partly applied:
\* a rule of the type other than the target, which the request has passed
\* in its loop, is gone, and the target has not the merged body.
PartlyApplied(r, file) ==
    /\ r.i >= 2
    /\ \E k \in 2..Len(r.sameTypeRules) :
        /\ k < r.i \/ r.pc # "deleteRule"
        /\ Get(r.sameTypeRules[k], kId) # Get(r.finalRule, kId)
        /\ \A n \in 1..Len(file) : Get(file[n], kId) # Get(r.sameTypeRules[k], kId)
    /\ \A n \in 1..Len(file) :
        Get(file[n], kId) = Get(r.sameTypeRules[1], kId)
            => ThroughJson(UpdateData(file[n])) # ThroughJson(UpdateData(r.finalRule))

\* C25, first half: no overlapping request reads a file that shows a merge
\* decision partly applied.
C25_NoPartialMergeRead ==
    \A s, o \in Slots :
        (o # s /\ call.of[o].step = "write" /\ call.of[s].pc \in {"deleteRule", "updateRule"})
            => ~PartlyApplied(call.of[s], call.of[o].rules)

\* C25, second half: no request ends with its merge decision partly
\* applied.
C25_NoPartialMergeLeft ==
    \A s \in Slots :
        (call.of[s].pc = "done" /\ \A o \in Slots : call.of[o].pc \in {"idle", "done"})
            => ~PartlyApplied(call.of[s], rules)

\* C25: the merge decision is applied as one transaction: a file in which
\* another rule of the type is deleted and the target is not updated is
\* neither read by an overlapping request nor left when the requests
\* have ended.
C25_MergeAtomic == C25_NoPartialMergeRead /\ C25_NoPartialMergeLeft

\* The request in slot s has made a write that changed the file.
Wrote(s) ==
    /\ call.of[s].step = "write"
    /\ call'.of[s] # call.of[s]
    /\ rules' # rules

\* C26: a write is made from what the writer read and nothing else: the
\* file after it is the writer's earlier reading with the writer's change,
\* whatever another request has written in between.
C26_LastWriteWins ==
    [][\A s \in Slots : Wrote(s) => rules' = Handed(call.of[s], now)]_vars

\* The request r was answered that its rule was added.
Added(r) ==
    /\ r.pc = "done"
    /\ r.status = 200
    /\ Get(r.res, kSuccess) = True
    /\ Get(r.res, kMerged) = False

\* C26's case: two additions of rules of different types were both answered
\* with success, and the store holds the rule of one and no rule of the
\* other's type.
C26_Witness ==
    \E s, o \in Slots :
        /\ Added(call.of[s])
        /\ Added(call.of[o])
        /\ Get(Get(call.of[s].res, kRule), kType) # Get(Get(call.of[o].res, kRule), kType)
        /\ rules = saved(<<Get(call.of[o].res, kRule)>>)

====
